---- MODULE Spec2Model ----
(***************************************************************************)
(* Game session engine of the quiz platform (backend/internal/game,        *)
(* backend/internal/db, backend/internal/cache) as run by the local        *)
(* WebSocket server: one reader goroutine per connection calls             *)
(* Engine.HandleMessage for each inbound message, so the handlers of one   *)
(* connection run one after another while the handlers of different        *)
(* connections interleave at every call to the session store, the          *)
(* connection registry, the answer store, the leaderboard cache and the    *)
(* hub.  Each such call is one step of the model.                          *)
(***************************************************************************)
EXTENDS Integers, Sequences, FiniteSets, TLC

\* ------------------------------------------------------------------ bounds
\* number of inbound actions the connections may issue in one behaviour
MaxActions == 2
\* number of questions of the quiz under play
NumQuestions == 2
\* capacity of a session (2000 in the source), scaled down
Capacity == 1

\* ------------------------------------------------------------ input sets
Conns == {"c1", "c2", "c3"}
SessionIds == {"s1", "s2"}
\* identities attached to a connection when it is opened (token subject or
\* "anon-" + 8 characters); HandleJoinSession's fallback identity is added
ConnectUsers == {"user-0001", "anon-0001"}
AnonymousUser == "anonymous"
Users == ConnectUsers \cup {AnonymousUser}
Roles == {"HOST", "PLAYER"}
Nicknames == {"", "ann", "aaaaaaaaaaaaaaaaaaaaa"}
QuestionIds == {"q1", "q2", "qx"}
Selections == {"a", "b", ""}
TimesTaken == {500}

\* ------------------------------------------------------------- the quiz
\* models.Question without CorrectOptionID: what a player may see
QuizQuestion(i) ==
    [questionId |-> IF i = 1 THEN "q1" ELSE IF i = 2 THEN "q2" ELSE "q3",
     text |-> IF i = 1 THEN "t1" ELSE IF i = 2 THEN "t2" ELSE "t3",
     options |-> << [id |-> "a", text |-> "A"], [id |-> "b", text |-> "B"] >>,
     timeLimitSeconds |-> 2,
     points |-> 10]

\* Go slices are indexed from 0, TLA+ sequences from 1
At(s, i) == s[i + 1]
InRange(s, i) == i >= 0 /\ i < Len(s)

VARIABLES
    quizzes,      \* quizzes table: quizId -> models.Quiz (never written by the engine)
    sessions,     \* sessions table: sessionId -> models.Session
    connections,  \* connections table: set of models.Player rows, key (sessionId, connectionId)
    answers,      \* answers table: set of models.Answer rows, key (sessionId, userId#questionId)
    scores,       \* cache: sorted set leaderboard:<session>, rows (sid, user, score)
    nicknames,    \* cache: hash nickname:<session>, rows (sid, user, nick)
    ws,           \* per connection: socket state and the session it is registered under in the Hub
    proc,         \* per connection: position and locals of the running handler
    cleanup,      \* per session: teardown goroutines started by endGame, and whether one has finished
    sent,         \* history: every event handed to the hub, in order
    puts,         \* history: number of PutAnswer writes per answer key
    issued,       \* history: per connection, the inbound actions it has sent
    crashed,      \* a handler panicked: the server process is gone
    fan,          \* one BroadcastToSession call followed send by send
    rest,         \* sessions table as the session-creation handlers see it: PINs, and the running creations
    calc          \* one CalculateScore call: its arguments and its result

vars == << quizzes, sessions, connections, answers, scores, nicknames, ws,
           proc, cleanup, sent, puts, issued, crashed, fan, rest, calc >>

\* ------------------------------------------------------------ records
NoSession == [exists |-> FALSE, status |-> "", idx |-> 0, quizId |-> "",
              startedAt |-> 0, endedAt |-> 0]

NoRow == [sid |-> "", cid |-> "", user |-> "", nick |-> "", role |-> ""]

Idle == [pc |-> "idle", act |-> "", sid |-> "", nick |-> "", qid |-> "",
         opt |-> "", t |-> 0, conn |-> NoRow, quizId |-> "", idx |-> 0,
         count |-> 0, isCorrect |-> FALSE, points |-> 0, lb |-> << >>,
         hostAtIssue |-> FALSE]

HostActs == {"start_game", "next_question", "end_game"}

AnswerKeys == SessionIds \X Users \X QuestionIds

\* no BroadcastToSession call is being followed
FanIdle == [st |-> "idle", mode |-> "", sid |-> "", enum |-> {}, todo |-> {},
            got |-> [c \in Conns |-> 0], ok |-> {}, failed |-> {},
            err |-> FALSE, n |-> 0]

\* ids of the sessions followed by PIN, the PINs rand.Intn can draw, and the
\* concurrent session-creation requests
PinSessionIds == {"p1", "p2", "p3"}
Pins == {"000001", "000002"}
Creators == {"k1", "k2"}

NoPinSession == [exists |-> FALSE, pin |-> "", status |-> ""]

CreatorIdle == [pc |-> "idle", pin |-> "", attempt |-> 0, sid |-> ""]

\* no session created yet, no creation running
RestIdle == [tbl |-> [s \in PinSessionIds |-> NoPinSession],
             call |-> [k \in Creators |-> CreatorIdle],
             failed |-> 0]

\* no CalculateScore call followed
CalcIdle == [st |-> "idle", isCorrect |-> FALSE, t |-> 0, L |-> 0, B |-> 0, out |-> 0]

\* ------------------------------------------------------------- stores
\* db.GetSession: the record, or nil
GetSession(sid) == sessions[sid]

\* db.GetQuiz: "err" for an empty key (the store rejects it), "nil" when no
\* such quiz is stored, "ok" otherwise
GetQuizResult(quizId) ==
    IF quizId = "" THEN "err"
    ELSE IF quizId \in DOMAIN quizzes THEN "ok" ELSE "nil"

\* db.UpdateSessionStatus: an unconditional UpdateItem; SET status and
\* currentQuestionIndex, plus startedAt (ACTIVE) or endedAt (FINISHED).
\* UpdateItem creates the item when the key is absent.
UpdateSessionStatus(sid, status, questionIndex) ==
    [sessions EXCEPT ![sid] =
        [exists |-> TRUE,
         status |-> status,
         idx |-> questionIndex,
         quizId |-> @.quizId,
         startedAt |-> IF status = "ACTIVE" THEN @.startedAt + 1 ELSE @.startedAt,
         endedAt |-> IF status = "FINISHED" THEN @.endedAt + 1 ELSE @.endedAt]]

\* db.PutConnection: PutItem replaces the row with the same key
PutConnection(row) ==
    {r \in connections : ~(r.sid = row.sid /\ r.cid = row.cid)} \cup {row}

\* db.DeleteConnection
DeleteConnection(sid, cid) ==
    {r \in connections : ~(r.sid = sid /\ r.cid = cid)}

\* db.GetConnectionsBySession
GetConnectionsBySession(sid) == {r \in connections : r.sid = sid}

\* db.GetPlayerCountBySession
GetPlayerCountBySession(sid) ==
    Cardinality({r \in GetConnectionsBySession(sid) : r.role = "PLAYER"})

\* db.GetSessionByConnectionID: Query on connectionId-index with Limit 1;
\* the rows it may return (none: "connection not found")
GetSessionByConnectionID(cid) == {r \in connections : r.cid = cid}

\* db.GetAnswer
GetAnswer(sid, user, qid) ==
    {a \in answers : a.sid = sid /\ a.user = user /\ a.qid = qid}

\* db.PutAnswer: an unconditional PutItem
PutAnswer(a) ==
    {b \in answers : ~(b.sid = a.sid /\ b.user = a.user /\ b.qid = a.qid)} \cup {a}

\* ------------------------------------------------------------- cache
HasScore(sid, user) == \E r \in scores : r.sid = sid /\ r.user = user

\* cache.GetPlayerScore: 0 when the member is absent
GetPlayerScore(sid, user) ==
    IF HasScore(sid, user)
    THEN (CHOOSE r \in scores : r.sid = sid /\ r.user = user).score
    ELSE 0

\* cache.UpsertScore: ZADD sets the member's score
UpsertScore(sid, user, score) ==
    {r \in scores : ~(r.sid = sid /\ r.user = user)}
        \cup {[sid |-> sid, user |-> user, score |-> score]}

\* (mutant) the score set to the increment instead of added to
IncrementScore_Overwrite(sid, user, delta) == UpsertScore(sid, user, delta)

\* cache.IncrementScore: ZINCRBY, creating the member when absent
IncrementScore(sid, user, delta) ==
    UpsertScore(sid, user, GetPlayerScore(sid, user) + delta)

\* cache.SetNickname: HSET
SetNickname(sid, user, nick) ==
    {r \in nicknames : ~(r.sid = sid /\ r.user = user)}
        \cup {[sid |-> sid, user |-> user, nick |-> nick]}

NicknameOf(sid, user) ==
    IF \E r \in nicknames : r.sid = sid /\ r.user = user
    THEN (CHOOSE r \in nicknames : r.sid = sid /\ r.user = user).nick
    ELSE ""

\* byte order of the member names, the sorted set's tie-break
UserOrd(u) ==
    IF u = "A" THEN 1 ELSE IF u = "B" THEN 2 ELSE IF u = "C" THEN 3
    ELSE IF u = "anon-0001" THEN 4 ELSE IF u = "anonymous" THEN 5 ELSE 6

\* userID[:8] for the member names of at least 8 bytes
Prefix8(u) ==
    IF u = "anon-0001" THEN "anon-000"
    ELSE IF u = "anonymous" THEN "anonymou"
    ELSE "user-000"

\* ZREVRANGE order: higher score first, then higher member name first
Before(r1, r2) ==
    \/ r1.score > r2.score
    \/ r1.score = r2.score /\ UserOrd(r1.user) > UserOrd(r2.user)

\* cache.GetPlayerRank: 1-indexed position from the top, -1 when absent
GetPlayerRank(sid, user) ==
    IF ~HasScore(sid, user) THEN -1
    ELSE LET me == CHOOSE r \in scores : r.sid = sid /\ r.user = user
         IN  1 + Cardinality({r \in scores : r.sid = sid /\ Before(r, me)})

\* cache.GetTopN: the first n members in ZREVRANGE order, with nickname
\* (fallback userID[:8]) and rank
GetTopN(sid, n) ==
    LET rows == {r \in scores : r.sid = sid}
        k == IF Cardinality(rows) < n THEN Cardinality(rows) ELSE n
    IN  [i \in 1..k |->
            LET r == CHOOSE x \in rows :
                        Cardinality({y \in rows : Before(y, x)}) = i - 1
            IN  [userId |-> r.user,
                 nickname |-> IF NicknameOf(sid, r.user) = ""
                              THEN Prefix8(r.user) ELSE NicknameOf(sid, r.user),
                 score |-> r.score,
                 rank |-> i]]

\* cache.GetTopN slices userID[:8] without a length check
GetTopNPanics(sid, n) ==
    \E i \in 1..Len(GetTopN(sid, n)) :
        /\ NicknameOf(sid, GetTopN(sid, n)[i].userId) = ""
        /\ Len(GetTopN(sid, n)[i].userId) < 8

\* ------------------------------------------------------------- scoring
\* game.CalculateScore
\* ------------------------------------------------- float64 arithmetic
\* CalculateScore computes its bonus in float64. A positive float64 is kept
\* as [m, e]: m the significand as a sequence of Prec bits, most significant
\* (always 1) first, e the exponent of its last bit; the value is m * 2^e.
\* Every operation rounds its exact result to the nearest value, ties to
\* even, as IEEE 754 binary64 does.
Prec == 53

Zeros(n) == [i \in 1..n |-> 0]

FZero == [m |-> << >>, e |-> 0]

FOne == [m |-> << 1 >> \o Zeros(Prec - 1), e |-> 1 - Prec]

\* b without its leading zeros
StripZeros(b) ==
    IF \A i \in DOMAIN b : b[i] = 0 THEN << >>
    ELSE LET k == CHOOSE i \in DOMAIN b :
                      b[i] = 1 /\ \A j \in 1..(i - 1) : b[j] = 0
         IN  SubSeq(b, k, Len(b))

\* b + 1 on a bit sequence that is not all ones
IncBits(b) ==
    LET k == CHOOSE i \in DOMAIN b :
                 b[i] = 0 /\ \A j \in (i + 1)..Len(b) : b[j] = 1
    IN  [i \in 1..Len(b) |-> IF i < k THEN b[i] ELSE IF i = k THEN 1 ELSE 0]

RECURSIVE ToBits(_)
ToBits(n) == IF n = 0 THEN << >> ELSE ToBits(n \div 2) \o << n % 2 >>

RECURSIVE ToInt(_)
ToInt(b) ==
    IF b = << >> THEN 0
    ELSE 2 * ToInt(SubSeq(b, 1, Len(b) - 1)) + b[Len(b)]

\* the float64 nearest to the exact value bits * 2^e0 (plus a non-zero
\* amount below the last bit when sticky), ties to even
RoundBits(bits, e0, sticky) ==
    LET b == StripZeros(bits)
        n == Len(b)
    IN  IF n = 0 THEN FZero
        ELSE IF n <= Prec THEN [m |-> b \o Zeros(Prec - n), e |-> e0 - (Prec - n)]
        ELSE LET kept == SubSeq(b, 1, Prec)
                 e == e0 + (n - Prec)
                 st == sticky \/ \E i \in (Prec + 2)..n : b[i] = 1
                 up == b[Prec + 1] = 1 /\ (st \/ kept[Prec] = 1)
             IN  IF ~up THEN [m |-> kept, e |-> e]
                 ELSE IF \A i \in 1..Prec : kept[i] = 1
                      THEN [m |-> << 1 >> \o Zeros(Prec - 1), e |-> e + 1]
                      ELSE [m |-> IncBits(kept), e |-> e]

\* the least s >= 1 with t * 2^s >= L, for 0 < t < L < 2^30
LeadShift(t, L) ==
    CHOOSE s \in 1..30 :
        /\ t > (L - 1) \div (2 ^ s)
        /\ t <= (L - 1) \div (2 ^ (s - 1))

\* long division of r0 / L for 0 <= r0 < L: the remainder after i quotient
\* bits, and the i-th quotient bit
DivRem(r0, L) ==
    LET rem[i \in 0..Prec] == IF i = 0 THEN r0 ELSE (2 * rem[i - 1]) % L
    IN  rem

DivBits(r0, L) ==
    [i \in 1..Prec |-> IF 2 * DivRem(r0, L)[i - 1] >= L THEN 1 ELSE 0]

\* float64(t) / float64(L) for integers 0 <= t <= L, L > 0
FDiv(t, L) ==
    IF t = 0 THEN FZero
    ELSE IF t = L THEN FOne
    ELSE LET s == LeadShift(t, L)
             r0 == t * (2 ^ s) - L
         IN  RoundBits(<< 1 >> \o DivBits(r0, L), 0 - (s + Prec),
                       DivRem(r0, L)[Prec] # 0)

\* 1 - r for a float64 0 <= r <= 1
FSubFromOne(r) ==
    IF r = FZero THEN FOne
    ELSE IF r = FOne THEN FZero
    ELSE LET n == 0 - r.e
             padded == Zeros(n - Prec) \o r.m
             comp == [i \in 1..n |-> 1 - padded[i]]
         IN  RoundBits(IncBits(comp), r.e, FALSE)

\* b * k for a bit sequence b and a small natural k: the carry into each
\* position, then the digits
MulCarry(b, k) ==
    LET carry[i \in 1..(Len(b) + 1)] ==
            IF i = Len(b) + 1 THEN 0 ELSE (b[i] * k + carry[i + 1]) \div 2
    IN  carry

MulBits(b, k) ==
    ToBits(MulCarry(b, k)[1])
        \o [i \in 1..Len(b) |-> (b[i] * k + MulCarry(b, k)[i + 1]) % 2]

\* float64(B) * 0.5 * d for a natural B and a float64 d >= 0: the first
\* product is exact, the second is rounded
FMulHalf(B, d) ==
    IF d = FZero THEN FZero
    ELSE RoundBits(MulBits(d.m, B), d.e - 1, FALSE)

\* int(p) for a float64 p >= 0: the fraction is cut off
FTrunc(p) ==
    IF p = FZero \/ Prec + p.e <= 0 THEN 0
    ELSE ToInt(SubSeq(p.m, 1, Prec + p.e))

ClampTime_ToZero(timeTakenMs, timeLimitMs) ==
    IF timeTakenMs < 0 \/ timeTakenMs > timeLimitMs THEN 0 ELSE timeTakenMs

\* timeTakenMs clamped to 0..timeLimitMs
ClampTime(timeTakenMs, timeLimitMs) ==
    IF timeTakenMs < 0 THEN 0
    ELSE IF timeTakenMs > timeLimitMs THEN timeLimitMs
    ELSE timeTakenMs

CalculateScore_NoCorrectCheck(isCorrect, timeTakenMs, timeLimitMs, basePoints) ==
    IF timeLimitMs <= 0 THEN basePoints
    ELSE LET timeRatio == FDiv(ClampTime(timeTakenMs, timeLimitMs), timeLimitMs)
             bonus == FTrunc(FMulHalf(basePoints, FSubFromOne(timeRatio)))
         IN  basePoints + bonus

CalculateScore(isCorrect, timeTakenMs, timeLimitMs, basePoints) ==
    IF ~isCorrect THEN 0
    ELSE IF timeLimitMs <= 0 THEN basePoints
    ELSE LET timeRatio == FDiv(ClampTime(timeTakenMs, timeLimitMs), timeLimitMs)
             bonus == FTrunc(FMulHalf(basePoints, FSubFromOne(timeRatio)))
         IN  basePoints + bonus

\* ------------------------------------------------------------- hub
\* Hub.sessions[sid]: the connections registered under the session
HubMembers(sid) == {c \in Conns : ws[c].state \in {"open", "broken"} /\ ws[c].sid = sid}

\* Hub.SendToConnection: lookup, then WriteMessage, which fails on a dead socket
SendOk(c) == ws[c].state = "open"

\* Broadcaster.BroadcastToSession (local mode: Hub.BroadcastToSession): the
\* event as handed to every member; "to" holds the members whose write
\* succeeded; "by" and "act" are history: the calling connection and its action
Broadcast(by, sid, type, payload) ==
    [type |-> type, sid |-> sid, by |-> by, act |-> proc[by].act,
     payload |-> payload, to |-> {c \in HubMembers(sid) : SendOk(c)}]

\* Hub.BroadcastToSession returns the last send error
BroadcastFails(sid) == \E c \in HubMembers(sid) : ~SendOk(c)

\* Broadcaster.SendToConnection (local mode: Hub.SendToConnection)
Unicast(by, cid, type, payload) ==
    [type |-> type, sid |-> "", by |-> by, act |-> proc[by].act,
     payload |-> payload, to |-> IF SendOk(cid) THEN {cid} ELSE {}]

\* the dispatcher's reply when HandleMessage returns an error
ErrorEvent(c, msg) ==
    Unicast(c, c, "error", [code |-> "INTERNAL_ERROR", message |-> msg])

\* ------------------------------------------------------------- Init
\* a stored quiz: the questions with one option of each marked correct
Quiz(correct) ==
    [quizId |-> "q1",
     questions |-> [i \in 1..NumQuestions |->
         [questionId |-> QuizQuestion(i).questionId,
          text |-> QuizQuestion(i).text,
          options |-> QuizQuestion(i).options,
          correctOptionId |-> correct[i],
          timeLimitSeconds |-> QuizQuestion(i).timeLimitSeconds,
          points |-> QuizQuestion(i).points]]]

\* the answer keys tried: a, b, a, ... and b, a, b, ...
CorrectKeys ==
    {[i \in 1..NumQuestions |-> IF i % 2 = 1 THEN "a" ELSE "b"],
     [i \in 1..NumQuestions |-> IF i % 2 = 1 THEN "b" ELSE "a"]}

NoReg == [sid |-> "", user |-> "", role |-> ""]

\* The stores as the REST handlers leave them (handleCreateQuiz,
\* handleCreateSession: status LOBBY, index 0) and the connections that
\* handleWebSocket has opened so far: regs[c] is the session, identity and
\* role c connected with, NoReg when c is not open yet.
InitSessions(regs, created) ==
    /\ \E correct \in CorrectKeys : quizzes = [q \in {"q1"} |-> Quiz(correct)]
    /\ sessions = [s \in SessionIds |->
                     IF s \in created
                     THEN [exists |-> TRUE, status |-> "LOBBY", idx |-> 0,
                           quizId |-> "q1", startedAt |-> 0, endedAt |-> 0]
                     ELSE NoSession]
    /\ connections = {[sid |-> regs[c].sid, cid |-> c, user |-> regs[c].user,
                       nick |-> "", role |-> regs[c].role] :
                            c \in {x \in Conns : regs[x] # NoReg}}
    /\ ws = [c \in Conns |-> IF regs[c] = NoReg
                              THEN [state |-> "new", sid |-> ""]
                              ELSE [state |-> "open", sid |-> regs[c].sid]]
    /\ answers = {}
    /\ scores = {}
    /\ nicknames = {}
    /\ proc = [c \in Conns |-> Idle]
    /\ cleanup = [s \in SessionIds |-> [queued |-> 0, half |-> 0, done |-> FALSE]]
    /\ sent = << >>
    /\ puts = [k \in AnswerKeys |-> 0]
    /\ issued = [c \in Conns |-> << >>]
    /\ crashed = FALSE
    /\ fan = FanIdle

\* one session, s1, has been created
InitEngine(regs) == InitSessions(regs, {"s1"})

InitWith(regs) == InitEngine(regs) /\ rest = RestIdle /\ calc = CalcIdle

\* ------------------------------------------------- handler bookkeeping
\* the handler of c moves on to pc with some locals updated
Goto(c, pc, locals) ==
    proc' = [proc EXCEPT ![c] = [f \in DOMAIN Idle |->
                IF f = "pc" THEN pc
                ELSE IF f \in DOMAIN locals THEN locals[f] ELSE @[f]]]

\* the handler of c returns err ("" is nil) after handing the events evs to
\* the hub; on an error the dispatcher writes an error event to the calling
\* connection
Return(c, evs, err) ==
    /\ proc' = [proc EXCEPT ![c] = Idle]
    /\ sent' = IF err = "" THEN sent \o evs
                            ELSE (sent \o evs) \o << ErrorEvent(c, err) >>

\* run-time panic in a handler: nothing recovers it
Panic == crashed' = TRUE

At_(c, act, pc) == ~crashed /\ proc[c].act = act /\ proc[c].pc = pc

\* number of inbound actions issued so far
NActs == LET cs == CHOOSE q \in [1..Cardinality(Conns) -> Conns] :
                     \A c \in Conns : \E i \in DOMAIN q : q[i] = c
             sum[i \in 0..Cardinality(Conns)] ==
                 IF i = 0 THEN 0 ELSE sum[i - 1] + Len(issued[cs[i]])
         IN  sum[Cardinality(Conns)]

\* the behaviours explored stop issuing actions at MaxActions
Budget == NActs < MaxActions

\* the reader loop of c takes the next inbound message
CanIssue(c) ==
    /\ ~crashed
    /\ ws[c].state = "open"
    /\ proc[c].pc = "idle"

\* ------------------------------------------------- connection lifecycle
\* handleWebSocket: hub.Register and PutConnection with the identity of the
\* token and the role and session of the query string
Connect(c, sid, user, role) ==
    /\ ~crashed
    /\ ws[c].state = "new"
    /\ ws' = [ws EXCEPT ![c] = [state |-> "open", sid |-> sid]]
    /\ connections' = PutConnection([sid |-> sid, cid |-> c, user |-> user,
                                     nick |-> "", role |-> role])
    /\ UNCHANGED << rest, calc, fan, quizzes, sessions, answers, scores, nicknames, proc,
                    cleanup, sent, puts, issued, crashed >>

\* the peer goes away: writes to the socket fail from now on
Break(c) ==
    /\ ~crashed
    /\ ws[c].state = "open"
    /\ ws' = [ws EXCEPT ![c].state = "broken"]
    /\ UNCHANGED << rest, calc, fan, quizzes, sessions, connections, answers, scores, nicknames,
                    proc, cleanup, sent, puts, issued, crashed >>

\* the reader loop of c sees the read error between two messages and runs
\* its deferred cleanup: hub.Unregister and DeleteConnection
Disconnect(c) ==
    /\ ~crashed
    /\ ws[c].state \in {"open", "broken"}
    /\ proc[c].pc = "idle"
    /\ connections' = DeleteConnection(ws[c].sid, c)
    /\ ws' = [ws EXCEPT ![c].state = "closed"]
    /\ UNCHANGED << rest, calc, fan, quizzes, sessions, answers, scores, nicknames, proc,
                    cleanup, sent, puts, issued, crashed >>

\* ------------------------------------------------- HandleJoinSession
\* getClaimsFromContext: the context never holds a value under the
\* function-local key type, so the claims are always nil
getClaimsFromContext == "nil"

\* userID of the joining player
JoinUserID == IF getClaimsFromContext = "nil" THEN AnonymousUser ELSE "claims.UserID"

IssueJoin(c, sid, nick) ==
    /\ CanIssue(c)
    /\ proc' = [proc EXCEPT ![c] = [Idle EXCEPT !.pc = "j_get",
                    !.act = "join_session", !.sid = sid, !.nick = nick]]
    /\ issued' = [issued EXCEPT ![c] = Append(@, [act |-> "join_session", sid |-> sid])]
    /\ UNCHANGED << rest, calc, fan, quizzes, sessions, connections, answers, scores, nicknames,
                    ws, cleanup, sent, puts, crashed >>

\* nickname check, GetSession, status check
JoinGetSession(c) ==
    /\ At_(c, "join_session", "j_get")
    /\ LET p == proc[c]
           session == GetSession(p.sid)
       IN  IF Len(p.nick) = 0 \/ Len(p.nick) > 20
           THEN Return(c, << >>, "nickname must be between 1 and 20 characters")
           ELSE IF ~session.exists
           THEN Return(c, << >>, "session not found")
           ELSE IF session.status # "LOBBY"
           THEN Return(c, << >>, "game already started")
           ELSE Goto(c, "j_count", << >>) /\ UNCHANGED sent
    /\ UNCHANGED << rest, calc, fan, quizzes, sessions, connections, answers, scores, nicknames,
                    ws, cleanup, puts, issued, crashed >>

\* (mutant) the count read but never compared with the capacity
JoinCount_NoCheck(c) ==
    /\ At_(c, "join_session", "j_count")
    /\ Goto(c, "j_put", [count |-> GetPlayerCountBySession(proc[c].sid)])
    /\ UNCHANGED << rest, calc, fan, quizzes, sessions, connections, answers, scores, nicknames,
                    ws, cleanup, sent, puts, issued, crashed >>

\* GetPlayerCountBySession, capacity check
JoinCount(c) ==
    /\ At_(c, "join_session", "j_count")
    /\ LET count == GetPlayerCountBySession(proc[c].sid)
       IN  IF count >= Capacity
           THEN Return(c, << >>, "session is full (max 2000 players)")
           ELSE Goto(c, "j_put", [count |-> count]) /\ UNCHANGED sent
    /\ UNCHANGED << rest, calc, fan, quizzes, sessions, connections, answers, scores, nicknames,
                    ws, cleanup, puts, issued, crashed >>

\* PutConnection of the PLAYER row
JoinPutConnection(c) ==
    /\ At_(c, "join_session", "j_put")
    /\ connections' = PutConnection([sid |-> proc[c].sid, cid |-> c,
                                     user |-> JoinUserID, nick |-> proc[c].nick,
                                     role |-> "PLAYER"])
    /\ Goto(c, "j_upsert", << >>)
    /\ UNCHANGED << rest, calc, fan, quizzes, sessions, answers, scores, nicknames, ws, cleanup,
                    sent, puts, issued, crashed >>

\* UpsertScore(session, user, 0)
JoinUpsertScore(c) ==
    /\ At_(c, "join_session", "j_upsert")
    /\ scores' = UpsertScore(proc[c].sid, JoinUserID, 0)
    /\ Goto(c, "j_nick", << >>)
    /\ UNCHANGED << rest, calc, fan, quizzes, sessions, connections, answers, nicknames, ws,
                    cleanup, sent, puts, issued, crashed >>

\* SetNickname
JoinSetNickname(c) ==
    /\ At_(c, "join_session", "j_nick")
    /\ nicknames' = SetNickname(proc[c].sid, JoinUserID, proc[c].nick)
    /\ Goto(c, "j_bcast", << >>)
    /\ UNCHANGED << rest, calc, fan, quizzes, sessions, connections, answers, scores, ws,
                    cleanup, sent, puts, issued, crashed >>

\* broadcast PlayerJoined{nickname, count + 1}; its error is the handler's result
JoinBroadcast(c) ==
    /\ At_(c, "join_session", "j_bcast")
    /\ Return(c, << Broadcast(c, proc[c].sid, "player_joined",
                        [nickname |-> proc[c].nick,
                         playerCount |-> proc[c].count + 1]) >>,
              IF BroadcastFails(proc[c].sid) THEN "send failed" ELSE "")
    /\ UNCHANGED << rest, calc, fan, quizzes, sessions, connections, answers, scores, nicknames,
                    ws, cleanup, puts, issued, crashed >>

\* ------------------------------------------------- shared by the host actions
\* (mutant) any registered connection passes the role check
IsHost_AnyRole(row) == row.role # ""

\* the role comparison of the host-only handlers
IsHost(row) == row.role = "HOST"

\* ghost of an issued host action: does the registry hold a HOST row for
\* the calling connection
HasHostRow(c) == \E r \in GetSessionByConnectionID(c) : r.role = "HOST"

IssueHostAct(c, act, sid, pc) ==
    /\ CanIssue(c)
    /\ proc' = [proc EXCEPT ![c] = [Idle EXCEPT !.pc = pc, !.act = act,
                    !.sid = sid, !.hostAtIssue = HasHostRow(c)]]
    /\ issued' = [issued EXCEPT ![c] = Append(@, [act |-> act, sid |-> sid])]
    /\ UNCHANGED << rest, calc, fan, quizzes, sessions, connections, answers, scores, nicknames,
                    ws, cleanup, sent, puts, crashed >>

\* (mutant) the payload built from the whole question, correct option included
QuestionPayload_WithAnswer(quiz, index) ==
    LET q == At(quiz.questions, index)
    IN  [questionIndex |-> index,
         totalQuestions |-> Len(quiz.questions),
         text |-> q.text,
         options |-> q.options,
         correctOptionId |-> q.correctOptionId,
         timeLimitMs |-> q.timeLimitSeconds * 1000,
         points |-> q.points]

\* models.QuestionPayload as built by Engine.sendQuestion
QuestionPayload(quiz, index) ==
    LET q == At(quiz.questions, index)
    IN  [questionIndex |-> index,
         totalQuestions |-> Len(quiz.questions),
         text |-> q.text,
         options |-> q.options,
         timeLimitMs |-> q.timeLimitSeconds * 1000,
         points |-> q.points]

\* Engine.sendQuestion: the Question event of quiz.Questions[index]
sendQuestion(c, sid, quiz, index) ==
    Broadcast(c, sid, "question", QuestionPayload(quiz, index))

\* ------------------------------------------------- HandleStartGame
IssueStartGame(c, sid) == IssueHostAct(c, "start_game", sid, "s_get")

\* GetSession, status check
StartGetSession(c) ==
    /\ At_(c, "start_game", "s_get")
    /\ LET session == GetSession(proc[c].sid)
       IN  IF ~session.exists
           THEN Return(c, << >>, "session not found")
           ELSE IF session.status # "LOBBY"
           THEN Return(c, << >>, "game already started")
           ELSE Goto(c, "s_role", [quizId |-> session.quizId]) /\ UNCHANGED sent
    /\ UNCHANGED << rest, calc, fan, quizzes, sessions, connections, answers, scores, nicknames,
                    ws, cleanup, puts, issued, crashed >>

\* GetSessionByConnectionID, role check, GetQuiz (the quizzes table is
\* never written, so its read is taken with this step)
StartVerifyHost(c) ==
    /\ At_(c, "start_game", "s_role")
    /\ IF GetSessionByConnectionID(c) = {}
       THEN Return(c, << >>, "failed to verify host")
       ELSE \E conn \in GetSessionByConnectionID(c) :
              IF ~IsHost(conn)
              THEN Return(c, << >>, "only the host can start the game")
              ELSE IF GetQuizResult(proc[c].quizId) = "err"
              THEN Return(c, << >>, "failed to get quiz")
              ELSE IF GetQuizResult(proc[c].quizId) = "nil"
              THEN Return(c, << >>, "quiz not found")
              ELSE Goto(c, "s_upd", [conn |-> conn]) /\ UNCHANGED sent
    /\ UNCHANGED << rest, calc, fan, quizzes, sessions, connections, answers, scores, nicknames,
                    ws, cleanup, puts, issued, crashed >>

\* UpdateSessionStatus(session, ACTIVE, 0)
StartUpdateSession(c) ==
    /\ At_(c, "start_game", "s_upd")
    /\ sessions' = UpdateSessionStatus(proc[c].sid, "ACTIVE", 0)
    /\ Goto(c, "s_started", << >>)
    /\ UNCHANGED << rest, calc, fan, quizzes, connections, answers, scores, nicknames, ws,
                    cleanup, sent, puts, issued, crashed >>

\* broadcast GameStarted{totalQuestions}; a send error ends the handler
StartBroadcastStarted(c) ==
    /\ At_(c, "start_game", "s_started")
    /\ LET ev == Broadcast(c, proc[c].sid, "game_started",
                    [totalQuestions |-> Len(quizzes[proc[c].quizId].questions)])
       IN  IF BroadcastFails(proc[c].sid)
           THEN Return(c, << ev >>, "send failed")
           ELSE Goto(c, "s_question", << >>) /\ sent' = Append(sent, ev)
    /\ UNCHANGED << rest, calc, fan, quizzes, sessions, connections, answers, scores, nicknames,
                    ws, cleanup, puts, issued, crashed >>

\* sendQuestion(quiz, 0)
StartSendQuestion(c) ==
    /\ At_(c, "start_game", "s_question")
    /\ Return(c, << sendQuestion(c, proc[c].sid, quizzes[proc[c].quizId], 0) >>,
              IF BroadcastFails(proc[c].sid) THEN "send failed" ELSE "")
    /\ UNCHANGED << rest, calc, fan, quizzes, sessions, connections, answers, scores, nicknames,
                    ws, cleanup, puts, issued, crashed >>

\* ------------------------------------------------- HandleSubmitAnswer
IssueSubmitAnswer(c, qid, opt, t) ==
    /\ CanIssue(c)
    /\ proc' = [proc EXCEPT ![c] = [Idle EXCEPT !.pc = "a_conn",
                    !.act = "submit_answer", !.qid = qid, !.opt = opt, !.t = t]]
    /\ issued' = [issued EXCEPT ![c] = Append(@, [act |-> "submit_answer", sid |-> ""])]
    /\ UNCHANGED << rest, calc, fan, quizzes, sessions, connections, answers, scores, nicknames,
                    ws, cleanup, sent, puts, crashed >>

\* GetSessionByConnectionID
SubmitFindConnection(c) ==
    /\ At_(c, "submit_answer", "a_conn")
    /\ IF GetSessionByConnectionID(c) = {}
       THEN Return(c, << >>, "failed to find connection")
       ELSE \E conn \in GetSessionByConnectionID(c) :
              Goto(c, "a_get", [conn |-> conn]) /\ UNCHANGED sent
    /\ UNCHANGED << rest, calc, fan, quizzes, sessions, connections, answers, scores, nicknames,
                    ws, cleanup, puts, issued, crashed >>

\* GetSession(conn.SessionID), status check
SubmitGetSession(c) ==
    /\ At_(c, "submit_answer", "a_get")
    /\ LET session == GetSession(proc[c].conn.sid)
       IN  IF ~session.exists \/ session.status # "ACTIVE"
           THEN Return(c, << >>, "game is not active")
           ELSE Goto(c, "a_chk", [quizId |-> session.quizId]) /\ UNCHANGED sent
    /\ UNCHANGED << rest, calc, fan, quizzes, sessions, connections, answers, scores, nicknames,
                    ws, cleanup, puts, issued, crashed >>

\* index in quiz.Questions of the question with this id, or -1
FindQuestion(quiz, qid) ==
    IF \E i \in 0..(Len(quiz.questions) - 1) : At(quiz.questions, i).questionId = qid
    THEN CHOOSE i \in 0..(Len(quiz.questions) - 1) :
            /\ At(quiz.questions, i).questionId = qid
            /\ \A j \in 0..(i - 1) : At(quiz.questions, j).questionId # qid
    ELSE -1

\* GetAnswer and the already-answered check; then GetQuiz (never written),
\* the search for the question and the score
SubmitCheckExisting(c) ==
    /\ At_(c, "submit_answer", "a_chk")
    /\ LET p == proc[c]
       IN  IF GetAnswer(p.conn.sid, p.conn.user, p.qid) # {}
           THEN Return(c, << >>, "already answered this question") /\ UNCHANGED crashed
           ELSE IF GetQuizResult(p.quizId) = "err"
           THEN Return(c, << >>, "failed to get quiz") /\ UNCHANGED crashed
           ELSE IF GetQuizResult(p.quizId) = "nil"
           THEN Panic /\ UNCHANGED << proc, sent >>
           ELSE LET quiz == quizzes[p.quizId]
                    i == FindQuestion(quiz, p.qid)
                IN  IF i = -1
                    THEN Return(c, << >>, "question not found") /\ UNCHANGED crashed
                    ELSE LET question == At(quiz.questions, i)
                             isCorrect == p.opt = question.correctOptionId
                         IN  /\ Goto(c, "a_put",
                                  [idx |-> i,
                                   isCorrect |-> isCorrect,
                                   points |-> CalculateScore(isCorrect, p.t,
                                                question.timeLimitSeconds * 1000,
                                                question.points)])
                             /\ UNCHANGED << sent, crashed >>
    /\ UNCHANGED << rest, calc, fan, quizzes, sessions, connections, answers, scores, nicknames,
                    ws, cleanup, puts, issued >>

\* PutAnswer
SubmitPutAnswer(c) ==
    /\ At_(c, "submit_answer", "a_put")
    /\ LET p == proc[c]
       IN  /\ answers' = PutAnswer([sid |-> p.conn.sid, user |-> p.conn.user,
                                    qid |-> p.qid, opt |-> p.opt,
                                    isCorrect |-> p.isCorrect, t |-> p.t,
                                    points |-> p.points])
           /\ puts' = [puts EXCEPT ![<< p.conn.sid, p.conn.user, p.qid >>] = @ + 1]
           /\ Goto(c, IF p.points > 0 THEN "a_inc" ELSE "a_rank", << >>)
    /\ UNCHANGED << rest, calc, fan, quizzes, sessions, connections, scores, nicknames, ws,
                    cleanup, sent, issued, crashed >>

\* IncrementScore, only when points were earned
SubmitIncrementScore(c) ==
    /\ At_(c, "submit_answer", "a_inc")
    /\ scores' = IncrementScore(proc[c].conn.sid, proc[c].conn.user, proc[c].points)
    /\ Goto(c, "a_rank", << >>)
    /\ UNCHANGED << rest, calc, fan, quizzes, sessions, connections, answers, nicknames, ws,
                    cleanup, sent, puts, issued, crashed >>

\* GetPlayerRank
SubmitGetRank(c) ==
    /\ At_(c, "submit_answer", "a_rank")
    /\ Goto(c, "a_send", [count |-> GetPlayerRank(proc[c].conn.sid, proc[c].conn.user)])
    /\ UNCHANGED << rest, calc, fan, quizzes, sessions, connections, answers, scores, nicknames,
                    ws, cleanup, sent, puts, issued, crashed >>

\* (mutant) the AnswerResult broadcast to the caller's session
SubmitSendResult_Broadcast(c) ==
    /\ At_(c, "submit_answer", "a_send")
    /\ LET p == proc[c]
           question == At(quizzes[p.quizId].questions, p.idx)
       IN  Return(c, << Broadcast(c, p.conn.sid, "answer_result",
                          [isCorrect |-> p.isCorrect,
                           pointsEarned |-> p.points,
                           totalScore |-> GetPlayerScore(p.conn.sid, p.conn.user),
                           rank |-> p.count,
                           correctOptionId |-> question.correctOptionId]) >>,
                  IF BroadcastFails(p.conn.sid) THEN "send failed" ELSE "")
    /\ UNCHANGED << rest, calc, fan, quizzes, sessions, connections, answers, scores, nicknames,
                    ws, cleanup, puts, issued, crashed >>

\* GetPlayerScore, then SendToConnection of AnswerResult to the caller (no
\* step that changes a score touches the hub, so the two commute)
SubmitSendResult(c) ==
    /\ At_(c, "submit_answer", "a_send")
    /\ LET p == proc[c]
           question == At(quizzes[p.quizId].questions, p.idx)
       IN  Return(c, << Unicast(c, c, "answer_result",
                          [isCorrect |-> p.isCorrect,
                           pointsEarned |-> p.points,
                           totalScore |-> GetPlayerScore(p.conn.sid, p.conn.user),
                           rank |-> p.count,
                           correctOptionId |-> question.correctOptionId]) >>,
                  IF SendOk(c) THEN "" ELSE "send failed")
    /\ UNCHANGED << rest, calc, fan, quizzes, sessions, connections, answers, scores, nicknames,
                    ws, cleanup, puts, issued, crashed >>

\* ------------------------------------------------- HandleNextQuestion
IssueNextQuestion(c, sid) == IssueHostAct(c, "next_question", sid, "n_role")

\* nextIndex := session.CurrentQuestionIndex + 1
NextIndex(idx) == idx + 1

\* (mutant) the comparison off by one
PastLastQuestion_Late(nextIndex, quiz) == nextIndex > Len(quiz.questions)

\* nextIndex >= len(quiz.Questions): the game is over
PastLastQuestion(nextIndex, quiz) == nextIndex >= Len(quiz.questions)

\* GetSessionByConnectionID, role check
NextVerifyHost(c) ==
    /\ At_(c, "next_question", "n_role")
    /\ IF GetSessionByConnectionID(c) = {}
       THEN Return(c, << >>, "failed to verify host")
       ELSE \E conn \in GetSessionByConnectionID(c) :
              IF ~IsHost(conn)
              THEN Return(c, << >>, "only the host can advance questions")
              ELSE Goto(c, "n_get", [conn |-> conn]) /\ UNCHANGED sent
    /\ UNCHANGED << rest, calc, fan, quizzes, sessions, connections, answers, scores, nicknames,
                    ws, cleanup, puts, issued, crashed >>

\* GetSession (a nil session is dereferenced: panic), GetQuiz (never written)
NextGetSession(c) ==
    /\ At_(c, "next_question", "n_get")
    /\ LET session == GetSession(proc[c].sid)
       IN  IF ~session.exists
           THEN Panic /\ UNCHANGED << proc, sent >>
           ELSE IF GetQuizResult(session.quizId) = "err"
           THEN Return(c, << >>, "failed to get quiz") /\ UNCHANGED crashed
           ELSE /\ Goto(c, "n_top", [quizId |-> session.quizId, idx |-> session.idx])
                /\ UNCHANGED << sent, crashed >>
    /\ UNCHANGED << rest, calc, fan, quizzes, sessions, connections, answers, scores, nicknames,
                    ws, cleanup, puts, issued >>

\* GetTopN(10), then currentQuestion := quiz.Questions[index] (panic on a nil
\* quiz or an index out of range)
NextGetTopN(c) ==
    /\ At_(c, "next_question", "n_top")
    /\ LET p == proc[c]
       IN  IF \/ GetTopNPanics(p.sid, 10)
              \/ GetQuizResult(p.quizId) = "nil"
              \/ ~InRange(quizzes[p.quizId].questions, p.idx)
           THEN Panic /\ UNCHANGED proc
           ELSE Goto(c, "n_ended", [lb |-> GetTopN(p.sid, 10)]) /\ UNCHANGED crashed
    /\ UNCHANGED << rest, calc, fan, quizzes, sessions, connections, answers, scores, nicknames,
                    ws, cleanup, sent, puts, issued >>

\* (mutant) the closing broadcast left out
NextBroadcastEnded_Skipped(c) ==
    /\ At_(c, "next_question", "n_ended")
    /\ Goto(c, IF PastLastQuestion(NextIndex(proc[c].idx), quizzes[proc[c].quizId])
               THEN "e_upd" ELSE "n_upd", [lb |-> << >>])
    /\ UNCHANGED << rest, calc, fan, quizzes, sessions, connections, answers, scores, nicknames,
                    ws, cleanup, sent, puts, issued, crashed >>

\* broadcast QuestionEnded{correct option of the current question, top 10};
\* its error is dropped.  Then the branch on nextIndex.
NextBroadcastEnded(c) ==
    /\ At_(c, "next_question", "n_ended")
    /\ LET p == proc[c]
           quiz == quizzes[p.quizId]
       IN  /\ sent' = Append(sent, Broadcast(c, p.sid, "question_ended",
                          [correctOptionId |-> At(quiz.questions, p.idx).correctOptionId,
                           leaderboard |-> p.lb]))
           /\ Goto(c, IF PastLastQuestion(NextIndex(p.idx), quiz)
                      THEN "e_upd" ELSE "n_upd", [lb |-> << >>])
    /\ UNCHANGED << rest, calc, fan, quizzes, sessions, connections, answers, scores, nicknames,
                    ws, cleanup, puts, issued, crashed >>

\* UpdateSessionStatus(session, ACTIVE, nextIndex)
NextUpdateSession(c) ==
    /\ At_(c, "next_question", "n_upd")
    /\ sessions' = UpdateSessionStatus(proc[c].sid, "ACTIVE", NextIndex(proc[c].idx))
    /\ Goto(c, "n_question", << >>)
    /\ UNCHANGED << rest, calc, fan, quizzes, connections, answers, scores, nicknames, ws,
                    cleanup, sent, puts, issued, crashed >>

\* sendQuestion(quiz, nextIndex)
NextSendQuestion(c) ==
    /\ At_(c, "next_question", "n_question")
    /\ Return(c, << sendQuestion(c, proc[c].sid, quizzes[proc[c].quizId],
                                 NextIndex(proc[c].idx)) >>,
              IF BroadcastFails(proc[c].sid) THEN "send failed" ELSE "")
    /\ UNCHANGED << rest, calc, fan, quizzes, sessions, connections, answers, scores, nicknames,
                    ws, cleanup, puts, issued, crashed >>

\* ------------------------------------------------- HandleEndGame, endGame
IssueEndGame(c, sid) == IssueHostAct(c, "end_game", sid, "e_role")

\* GetSessionByConnectionID, role check
EndVerifyHost(c) ==
    /\ At_(c, "end_game", "e_role")
    /\ IF GetSessionByConnectionID(c) = {}
       THEN Return(c, << >>, "failed to verify host")
       ELSE \E conn \in GetSessionByConnectionID(c) :
              IF ~IsHost(conn)
              THEN Return(c, << >>, "only the host can end the game")
              ELSE Goto(c, "e_upd", [conn |-> conn]) /\ UNCHANGED sent
    /\ UNCHANGED << rest, calc, fan, quizzes, sessions, connections, answers, scores, nicknames,
                    ws, cleanup, puts, issued, crashed >>

\* endGame: UpdateSessionStatus(session, FINISHED, -1)
endGameUpdateSession(c) ==
    /\ ~crashed
    /\ proc[c].pc = "e_upd"
    /\ sessions' = UpdateSessionStatus(proc[c].sid, "FINISHED", -1)
    /\ Goto(c, "e_top", << >>)
    /\ UNCHANGED << rest, calc, fan, quizzes, connections, answers, scores, nicknames, ws,
                    cleanup, sent, puts, issued, crashed >>

\* endGame: GetTopN(100)
endGameGetTopN(c) ==
    /\ ~crashed
    /\ proc[c].pc = "e_top"
    /\ IF GetTopNPanics(proc[c].sid, 100)
       THEN Panic /\ UNCHANGED proc
       ELSE Goto(c, "e_over", [lb |-> GetTopN(proc[c].sid, 100)]) /\ UNCHANGED crashed
    /\ UNCHANGED << rest, calc, fan, quizzes, sessions, connections, answers, scores, nicknames,
                    ws, cleanup, sent, puts, issued >>

\* endGame: broadcast GameOver{final leaderboard}; on a send error return it,
\* otherwise start the goroutine that deletes the session's cache keys
endGameBroadcastOver(c) ==
    /\ ~crashed
    /\ proc[c].pc = "e_over"
    /\ LET ev == Broadcast(c, proc[c].sid, "game_over",
                    [finalLeaderboard |-> proc[c].lb])
       IN  IF BroadcastFails(proc[c].sid)
           THEN Return(c, << ev >>, "send failed") /\ UNCHANGED cleanup
           ELSE /\ Return(c, << ev >>, "")
                /\ cleanup' = [cleanup EXCEPT ![proc[c].sid].queued = @ + 1]
    /\ UNCHANGED << rest, calc, fan, quizzes, sessions, connections, answers, scores, nicknames,
                    ws, puts, issued, crashed >>

\* cache.DeleteSession, first command of the pipeline: DEL leaderboard:<session>
DeleteSessionScores(sid) ==
    /\ ~crashed
    /\ cleanup[sid].queued > 0
    /\ scores' = {r \in scores : r.sid # sid}
    /\ cleanup' = [cleanup EXCEPT ![sid].queued = @ - 1, ![sid].half = @ + 1]
    /\ UNCHANGED << rest, calc, fan, quizzes, sessions, connections, answers, nicknames, ws,
                    proc, sent, puts, issued, crashed >>

\* cache.DeleteSession, second command of the pipeline: DEL nickname:<session>
DeleteSessionNicknames(sid) ==
    /\ ~crashed
    /\ cleanup[sid].half > 0
    /\ nicknames' = {r \in nicknames : r.sid # sid}
    /\ cleanup' = [cleanup EXCEPT ![sid].half = @ - 1, ![sid].done = TRUE]
    /\ UNCHANGED << rest, calc, fan, quizzes, sessions, connections, answers, scores, ws,
                    proc, sent, puts, issued, crashed >>

\* ------------------------------------------------- specification
\* steps of the host-only handlers
HostSteps ==
    \/ \E c \in Conns : StartGetSession(c)
    \/ \E c \in Conns : StartVerifyHost(c)
    \/ \E c \in Conns : StartUpdateSession(c)
    \/ \E c \in Conns : StartBroadcastStarted(c)
    \/ \E c \in Conns : StartSendQuestion(c)
    \/ \E c \in Conns : NextVerifyHost(c)
    \/ \E c \in Conns : NextGetSession(c)
    \/ \E c \in Conns : NextGetTopN(c)
    \/ \E c \in Conns : NextBroadcastEnded(c)
    \/ \E c \in Conns : NextUpdateSession(c)
    \/ \E c \in Conns : NextSendQuestion(c)
    \/ \E c \in Conns : EndVerifyHost(c)
    \/ \E c \in Conns : endGameUpdateSession(c)
    \/ \E c \in Conns : endGameGetTopN(c)
    \/ \E c \in Conns : endGameBroadcastOver(c)
    \/ \E sid \in SessionIds : DeleteSessionScores(sid)
    \/ \E sid \in SessionIds : DeleteSessionNicknames(sid)

\* Two connections are open on session s1, the first as HOST, the second
\* with either role (the third is not open); each sends start_game, next_question and end_game
\* messages naming any session.
Init ==
    \E role2 \in Roles :
        InitWith([c \in Conns |->
            IF c = "c1" THEN [sid |-> "s1", user |-> "user-0001", role |-> "HOST"]
            ELSE IF c = "c2" THEN [sid |-> "s1", user |-> "anon-0001", role |-> role2]
            ELSE NoReg])

Next ==
    \/ \E c \in Conns, sid \in SessionIds : Budget /\ IssueStartGame(c, sid)
    \/ \E c \in Conns, sid \in SessionIds : Budget /\ IssueNextQuestion(c, sid)
    \/ \E c \in Conns, sid \in SessionIds : Budget /\ IssueEndGame(c, sid)
    \/ \E c \in Conns : Break(c)
    \/ HostSteps

Spec == Init /\ [][Next]_vars

\* ------------------------------------------------- a game run by one host
\* The host connection c1 starts the game of s1 and then only advances it;
\* the other connection is a player that sends nothing.  Either socket may
\* die at any moment.
SoloHost == "c1"

InitSolo ==
    InitWith([c \in Conns |->
        IF c = SoloHost THEN [sid |-> "s1", user |-> "user-0001", role |-> "HOST"]
        ELSE IF c = "c2" THEN [sid |-> "s1", user |-> "anon-0001", role |-> "PLAYER"]
        ELSE NoReg])

NextSolo ==
    \/ issued[SoloHost] = << >> /\ IssueStartGame(SoloHost, "s1")
    \/ /\ issued[SoloHost] # << >>
       /\ Len(issued[SoloHost]) <= NumQuestions
       /\ IssueNextQuestion(SoloHost, "s1")
    \/ \E c \in Conns : Break(c)
    \/ StartGetSession(SoloHost)
    \/ StartVerifyHost(SoloHost)
    \/ StartUpdateSession(SoloHost)
    \/ StartBroadcastStarted(SoloHost)
    \/ StartSendQuestion(SoloHost)
    \/ NextVerifyHost(SoloHost)
    \/ NextGetSession(SoloHost)
    \/ NextGetTopN(SoloHost)
    \/ NextBroadcastEnded(SoloHost)
    \/ NextUpdateSession(SoloHost)
    \/ NextSendQuestion(SoloHost)
    \/ endGameUpdateSession(SoloHost)
    \/ endGameGetTopN(SoloHost)
    \/ endGameBroadcastOver(SoloHost)
    \/ DeleteSessionScores("s1")
    \/ DeleteSessionNicknames("s1")

SpecSolo == InitSolo /\ [][NextSolo]_vars

\* ------------------------------------------------- answering
\* The host c1 and a second connection, opened with either identity, are on
\* s1; c1 starts the game once and both send submit_answer messages.
MaxSubmits == 2

Submitted ==
    Cardinality({<< c, i >> \in Conns \X (1..(MaxSubmits + 1)) :
                    i <= Len(issued[c]) /\ issued[c][i].act = "submit_answer"})

InitPlay ==
    \E user2 \in ConnectUsers :
        InitWith([c \in Conns |->
            IF c = "c1" THEN [sid |-> "s1", user |-> "user-0001", role |-> "HOST"]
            ELSE IF c = "c2" THEN [sid |-> "s1", user |-> user2, role |-> "PLAYER"]
            ELSE NoReg])

NextPlay ==
    \/ issued["c1"] = << >> /\ IssueStartGame("c1", "s1")
    \/ \E c \in Conns, qid \in QuestionIds, opt \in Selections, t \in TimesTaken :
          Submitted < MaxSubmits /\ IssueSubmitAnswer(c, qid, opt, t)
    \/ \E c \in Conns : StartGetSession(c)
    \/ \E c \in Conns : StartVerifyHost(c)
    \/ \E c \in Conns : StartUpdateSession(c)
    \/ \E c \in Conns : StartBroadcastStarted(c)
    \/ \E c \in Conns : StartSendQuestion(c)
    \/ \E c \in Conns : SubmitFindConnection(c)
    \/ \E c \in Conns : SubmitGetSession(c)
    \/ \E c \in Conns : SubmitCheckExisting(c)
    \/ \E c \in Conns : SubmitPutAnswer(c)
    \/ \E c \in Conns : SubmitIncrementScore(c)
    \/ \E c \in Conns : SubmitGetRank(c)
    \/ \E c \in Conns : SubmitSendResult(c)

SpecPlay == InitPlay /\ [][NextPlay]_vars

\* ------------------------------------------------- joining
\* No connection is open at first; two connections open on s1 with any identity and
\* role, send join_session messages naming any session, and close.
Joiners == {"c1", "c2"}

InitJoin == InitWith([c \in Conns |-> NoReg])

NextJoin ==
    \/ \E c \in Joiners, sid \in SessionIds, user \in ConnectUsers, role \in Roles :
          Connect(c, sid, user, role)
    \/ \E c \in Conns : Disconnect(c)
    \/ \E c \in Conns, sid \in SessionIds, nick \in Nicknames :
          Budget /\ IssueJoin(c, sid, nick)
    \/ \E c \in Conns : JoinGetSession(c)
    \/ \E c \in Conns : JoinCount(c)
    \/ \E c \in Conns : JoinPutConnection(c)
    \/ \E c \in Conns : JoinUpsertScore(c)
    \/ \E c \in Conns : JoinSetNickname(c)
    \/ \E c \in Conns : JoinBroadcast(c)

SpecJoin == InitJoin /\ [][NextJoin]_vars

\* ------------------------------------------------- lobby and first question
\* Three connections are open on s1, all opened with role=HOST so that
\* none of them counts as a player yet: c1 starts the game once, c2 and c3
\* each send one join_session, and c2 then one submit_answer for the first
\* question.
LobbyHost == "c1"
LobbyPlayers == {"c2", "c3"}
LobbyAnswerer == "c2"

InitLobby ==
    InitWith([c \in Conns |->
        IF c = LobbyHost THEN [sid |-> "s1", user |-> "user-0001", role |-> "HOST"]
                         ELSE [sid |-> "s1", user |-> "anon-0001", role |-> "HOST"]])

NextLobby ==
    \/ issued[LobbyHost] = << >> /\ IssueStartGame(LobbyHost, "s1")
    \/ \E c \in LobbyPlayers, sid \in SessionIds, nick \in Nicknames :
          issued[c] = << >> /\ IssueJoin(c, sid, nick)
    \/ \E opt \in Selections, t \in TimesTaken :
          Len(issued[LobbyAnswerer]) = 1 /\ IssueSubmitAnswer(LobbyAnswerer, "q1", opt, t)
    \/ \E c \in Conns : JoinGetSession(c)
    \/ \E c \in Conns : JoinCount(c)
    \/ \E c \in Conns : JoinPutConnection(c)
    \/ \E c \in Conns : JoinUpsertScore(c)
    \/ \E c \in Conns : JoinSetNickname(c)
    \/ \E c \in Conns : JoinBroadcast(c)
    \/ \E c \in Conns : StartGetSession(c)
    \/ \E c \in Conns : StartVerifyHost(c)
    \/ \E c \in Conns : StartUpdateSession(c)
    \/ \E c \in Conns : StartBroadcastStarted(c)
    \/ \E c \in Conns : StartSendQuestion(c)
    \/ \E c \in Conns : SubmitFindConnection(c)
    \/ \E c \in Conns : SubmitGetSession(c)
    \/ \E c \in Conns : SubmitCheckExisting(c)
    \/ \E c \in Conns : SubmitPutAnswer(c)
    \/ \E c \in Conns : SubmitIncrementScore(c)
    \/ \E c \in Conns : SubmitGetRank(c)
    \/ \E c \in Conns : SubmitSendResult(c)

SpecLobby == InitLobby /\ [][NextLobby]_vars

\* ------------------------------------------------- BroadcastToSession
\* One call of Broadcaster.BroadcastToSession followed send by send, while
\* connections open, die and are cleaned up by their reader loops.

\* number of BroadcastToSession calls followed in one behaviour
MaxBroadcasts == 2

\* Broadcaster.Env: "local" with a Hub (cmd/server), anything else without
\* one (the Lambda handler builds the Broadcaster without SetHub)
Envs == {"local", "production"}

\* the recipients the call enumerates: the ids copied from Hub.sessions[sid]
\* in local mode, the connection ids of GetConnectionsBySession otherwise
FanRecipients(sid, mode) ==
    IF mode = "local" THEN HubMembers(sid)
    ELSE {r.cid : r \in GetConnectionsBySession(sid)}

\* entry of BroadcastToSession up to the start of the sends; in local mode a
\* session without hub entry returns nil at once
FanEnumerate(sid, mode) ==
    /\ ~crashed
    /\ fan.st \in {"idle", "done"}
    /\ fan.n < MaxBroadcasts
    /\ fan.mode \in {"", mode}
    /\ LET ids == FanRecipients(sid, mode)
       IN  fan' = [st |-> IF mode = "local" /\ ids = {} THEN "done" ELSE "sending",
                   mode |-> mode, sid |-> sid, enum |-> ids, todo |-> ids,
                   got |-> [c \in Conns |-> 0], ok |-> {}, failed |-> {},
                   err |-> FALSE, n |-> fan.n + 1]
    /\ UNCHANGED << rest, calc, quizzes, sessions, connections, answers, scores, nicknames,
                    ws, proc, cleanup, sent, puts, issued, crashed >>

\* Hub.SendToConnection for one copied id: the lookup fails when the
\* connection was unregistered after the copy, WriteMessage fails on a dead
\* socket; the loop records the error and goes on
FanHubSend(c) ==
    /\ ~crashed
    /\ fan.st = "sending"
    /\ fan.mode = "local"
    /\ c \in fan.todo
    /\ fan' = IF ws[c].state \in {"open", "broken"} /\ SendOk(c)
              THEN [fan EXCEPT !.todo = @ \ {c}, !.ok = @ \cup {c},
                               !.got[c] = @ + 1]
              ELSE [fan EXCEPT !.todo = @ \ {c}, !.failed = @ \cup {c}]
    /\ UNCHANGED << rest, calc, quizzes, sessions, connections, answers, scores, nicknames,
                    ws, proc, cleanup, sent, puts, issued, crashed >>

\* Broadcaster.SendToConnection without a Hub: logs "production broadcast
\* not implemented" and returns nil; the payload was marshalled before, so
\* no error is possible
ProductionSendError(c) == FALSE

\* one goroutine of the production fan-out: SendToConnection, and
\* DeleteConnection when it returned an error
FanPostToConnection(c) ==
    /\ ~crashed
    /\ fan.st = "sending"
    /\ fan.mode # "local"
    /\ c \in fan.todo
    /\ IF ProductionSendError(c)
       THEN /\ fan' = [fan EXCEPT !.todo = @ \ {c}, !.failed = @ \cup {c}]
            /\ connections' = DeleteConnection(fan.sid, c)
       ELSE /\ fan' = [fan EXCEPT !.todo = @ \ {c}, !.ok = @ \cup {c}]
            /\ UNCHANGED connections
    /\ UNCHANGED << rest, calc, quizzes, sessions, answers, scores, nicknames,
                    ws, proc, cleanup, sent, puts, issued, crashed >>

\* end of the loop (local: return lastErr) or wg.Wait() (production:
\* return nil)
FanReturn ==
    /\ ~crashed
    /\ fan.st = "sending"
    /\ fan.todo = {}
    /\ fan' = [fan EXCEPT !.st = "done",
                          !.err = (fan.mode = "local" /\ fan.failed # {})]
    /\ UNCHANGED << rest, calc, quizzes, sessions, connections, answers, scores, nicknames,
                    ws, proc, cleanup, sent, puts, issued, crashed >>

\* c1 and c2 are open on s1, c3 connects later
InitFanout ==
    InitWith([c \in Conns |->
                 IF c = "c1" THEN [sid |-> "s1", user |-> "user-0001", role |-> "HOST"]
                 ELSE IF c = "c2" THEN [sid |-> "s1", user |-> "anon-0001", role |-> "PLAYER"]
                 ELSE NoReg])

NextFanout ==
    \/ \E sid \in SessionIds, mode \in Envs : FanEnumerate(sid, mode)
    \/ \E c \in Conns : FanHubSend(c)
    \/ \E c \in Conns : FanPostToConnection(c)
    \/ FanReturn
    \/ \E c \in Conns, sid \in SessionIds : Connect(c, sid, "anon-0001", "PLAYER")
    \/ \E c \in Conns : Break(c)
    \/ \E c \in Conns : Disconnect(c)

SpecFanout == InitFanout /\ [][NextFanout]_vars

\* ------------------------------------------------- a game played to its end
\* The host c1 starts the game and then sends up to MaxEnds next_question or
\* end_game actions; the player c2 submits one answer to the first question.

MaxEnds == 2

EndHost == "c1"
EndPlayer == "c2"

InitEnd ==
    InitWith([c \in Conns |->
        IF c = EndHost THEN [sid |-> "s1", user |-> "user-0001", role |-> "HOST"]
        ELSE IF c = EndPlayer THEN [sid |-> "s1", user |-> "anon-0001", role |-> "PLAYER"]
        ELSE NoReg])

NextEnd ==
    \/ issued[EndHost] = << >> /\ IssueStartGame(EndHost, "s1")
    \/ Len(issued[EndHost]) \in 1..MaxEnds /\ IssueNextQuestion(EndHost, "s1")
    \/ Len(issued[EndHost]) \in 1..MaxEnds /\ IssueEndGame(EndHost, "s1")
    \/ \E opt \in Selections, t \in TimesTaken :
          issued[EndPlayer] = << >> /\ IssueSubmitAnswer(EndPlayer, "q1", opt, t)
    \/ HostSteps
    \/ \E c \in Conns : SubmitFindConnection(c)
    \/ \E c \in Conns : SubmitGetSession(c)
    \/ \E c \in Conns : SubmitCheckExisting(c)
    \/ \E c \in Conns : SubmitPutAnswer(c)
    \/ \E c \in Conns : SubmitIncrementScore(c)
    \/ \E c \in Conns : SubmitGetRank(c)
    \/ \E c \in Conns : SubmitSendResult(c)

SpecEnd == InitEnd /\ [][NextEnd]_vars

\* ------------------------------------------------- session creation
\* Concurrent create-session requests (handler / handleCreateSession), with
\* the status changes the engine makes to the sessions they created.

\* attempts of generateUniquePIN (10 in the source, scaled down)
PinAttempts == 2

EngineVars == << fan, calc, quizzes, sessions, connections, answers, scores,
                 nicknames, ws, proc, cleanup, sent, puts, issued, crashed >>

\* the items of the pin-index for one PIN
SessionsWithPIN(pin) ==
    {s \in PinSessionIds : rest.tbl[s].exists /\ rest.tbl[s].pin = pin}

\* uuid.New(): an id no session and no running creation holds
FreshSessionIds ==
    {s \in PinSessionIds :
        ~rest.tbl[s].exists /\ \A k \in Creators : rest.call[k].sid # s}

\* the handler up to generateUniquePIN: the request is valid, the quiz is
\* the caller's, the new session id is drawn
CreateBegin(k, s) ==
    /\ rest.call[k].pc = "idle"
    /\ s \in FreshSessionIds
    /\ rest' = [rest EXCEPT !.call[k] = [pc |-> "pin", pin |-> "", attempt |-> 0,
                                          sid |-> s]]
    /\ UNCHANGED EngineVars

\* one round of generateUniquePIN: draw a PIN, GetSessionByPIN (Query on
\* the hash-only pin-index with Limit 1: any one of the sessions holding the
\* PIN, nil when there is none); take the PIN when the result is nil or
\* FINISHED; give up after the last attempt
PinAttempt(k, pin, found) ==
    /\ rest.call[k].pc = "pin"
    /\ \/ found = "" /\ SessionsWithPIN(pin) = {}
       \/ found \in SessionsWithPIN(pin)
    /\ IF found = "" \/ rest.tbl[found].status = "FINISHED"
       THEN rest' = [rest EXCEPT !.call[k].pc = "put", !.call[k].pin = pin]
       ELSE IF rest.call[k].attempt + 1 < PinAttempts
            THEN rest' = [rest EXCEPT !.call[k].attempt = @ + 1]
            ELSE rest' = [rest EXCEPT !.call[k] = CreatorIdle, !.failed = 1]
    /\ UNCHANGED EngineVars

\* db.CreateSession: unconditional PutItem of the new session, status LOBBY
CreateSession(k) ==
    /\ rest.call[k].pc = "put"
    /\ rest' = [rest EXCEPT
                  !.tbl[rest.call[k].sid] =
                      [exists |-> TRUE, pin |-> rest.call[k].pin, status |-> "LOBBY"],
                  !.call[k] = CreatorIdle]
    /\ UNCHANGED EngineVars

\* the Start transition of a created session (UpdateSessionStatus ACTIVE)
PinSessionStart(s) ==
    /\ rest.tbl[s].exists
    /\ rest.tbl[s].status = "LOBBY"
    /\ rest' = [rest EXCEPT !.tbl[s].status = "ACTIVE"]
    /\ UNCHANGED EngineVars

\* the End transition of a created session (endGame: UpdateSessionStatus
\* FINISHED)
PinSessionEnd(s) ==
    /\ rest.tbl[s].exists
    /\ rest.tbl[s].status # "FINISHED"
    /\ rest' = [rest EXCEPT !.tbl[s].status = "FINISHED"]
    /\ UNCHANGED EngineVars

InitPin == InitWith([c \in Conns |-> NoReg])

NextPin ==
    \/ \E k \in Creators, s \in PinSessionIds : CreateBegin(k, s)
    \/ \E k \in Creators, pin \in Pins, found \in PinSessionIds \cup {""} :
          PinAttempt(k, pin, found)
    \/ \E k \in Creators : CreateSession(k)
    \/ \E s \in PinSessionIds : PinSessionStart(s)
    \/ \E s \in PinSessionIds : PinSessionEnd(s)

SpecPin == InitPin /\ [][NextPin]_vars

\* ------------------------------------------------- the leaderboard cache alone
\* Calls of the cache API on one session: scores are written for members
\* with and without a stored nickname, and GetTopN is called on the result.
BoardUsers == {"A", "B", "user-0001"}
BoardScores == {300, 900}
BoardSizes == {1, 2, 3}

BoardVars == << rest, calc, fan, quizzes, sessions, connections, answers, ws,
                proc, cleanup, puts, issued >>

BoardUpsertScore(user, score) ==
    /\ ~crashed
    /\ scores' = UpsertScore("s1", user, score)
    /\ UNCHANGED << nicknames, sent, crashed >>
    /\ UNCHANGED BoardVars

BoardIncrementScore(user, delta) ==
    /\ ~crashed
    /\ GetPlayerScore("s1", user) < 900
    /\ scores' = IncrementScore("s1", user, delta)
    /\ UNCHANGED << nicknames, sent, crashed >>
    /\ UNCHANGED BoardVars

BoardSetNickname(user, nick) ==
    /\ ~crashed
    /\ nicknames' = SetNickname("s1", user, nick)
    /\ UNCHANGED << scores, sent, crashed >>
    /\ UNCHANGED BoardVars

\* GetTopN(s1, n): the result of the latest call as returned to the caller,
\* or the panic of userID[:8]
BoardGetTopN(n) ==
    /\ ~crashed
    /\ IF GetTopNPanics("s1", n)
       THEN Panic /\ UNCHANGED sent
       ELSE /\ sent' = << [type |-> "top_n", sid |-> "s1", by |-> "",
                            act |-> "", to |-> {},
                            payload |-> [n |-> n,
                                         scored |-> Cardinality({r \in scores : r.sid = "s1"}),
                                         leaderboard |-> GetTopN("s1", n)]] >>
            /\ UNCHANGED crashed
    /\ UNCHANGED << scores, nicknames >>
    /\ UNCHANGED BoardVars

InitBoard == InitWith([c \in Conns |-> NoReg])

NextBoard ==
    \/ \E user \in BoardUsers, score \in BoardScores : BoardUpsertScore(user, score)
    \/ \E user \in BoardUsers : BoardIncrementScore(user, 300)
    \/ \E user \in BoardUsers : BoardSetNickname(user, "ann")
    \/ \E n \in BoardSizes : BoardGetTopN(n)

SpecBoard == InitBoard /\ [][NextBoard]_vars

\* ------------------------------------------------- CalculateScore alone
\* One call of CalculateScore on arguments drawn from small ranges that
\* reach below 0 and above the time limit.
MaxLimit == 5
MaxBase == 10

CalcTimes == (0 - 1)..(MaxLimit + 1)
CalcLimits == (0 - 1)..MaxLimit
CalcBases == 1..MaxBase

InitCalc ==
    /\ InitEngine([c \in Conns |-> NoReg])
    /\ rest = RestIdle
    /\ \E isCorrect \in BOOLEAN, t \in CalcTimes, L \in CalcLimits, B \in CalcBases :
          calc = [st |-> "called", isCorrect |-> isCorrect, t |-> t, L |-> L,
                  B |-> B, out |-> 0]

Calculate ==
    /\ calc.st = "called"
    /\ calc' = [calc EXCEPT !.st = "returned",
                            !.out = CalculateScore(calc.isCorrect, calc.t, calc.L, calc.B)]
    /\ UNCHANGED << rest, fan, quizzes, sessions, connections, answers, scores,
                    nicknames, ws, proc, cleanup, sent, puts, issued, crashed >>

SpecCalc == InitCalc /\ [][Calculate]_vars

\* ------------------------------------------------- answers with any time taken
\* The host c1 starts the game of s1 and the player c2 submits one answer
\* to the first question with a time taken below 0, within the limit or
\* above it.
SubmittedTimes == {0 - 1, 500, 2500}

NextTime ==
    \/ issued[EndHost] = << >> /\ IssueStartGame(EndHost, "s1")
    \/ \E opt \in Selections, t \in SubmittedTimes :
          issued[EndPlayer] = << >> /\ IssueSubmitAnswer(EndPlayer, "q1", opt, t)
    \/ \E c \in Conns : StartGetSession(c)
    \/ \E c \in Conns : StartVerifyHost(c)
    \/ \E c \in Conns : StartUpdateSession(c)
    \/ \E c \in Conns : StartBroadcastStarted(c)
    \/ \E c \in Conns : StartSendQuestion(c)
    \/ \E c \in Conns : SubmitFindConnection(c)
    \/ \E c \in Conns : SubmitGetSession(c)
    \/ \E c \in Conns : SubmitCheckExisting(c)
    \/ \E c \in Conns : SubmitPutAnswer(c)
    \/ \E c \in Conns : SubmitIncrementScore(c)
    \/ \E c \in Conns : SubmitGetRank(c)
    \/ \E c \in Conns : SubmitSendResult(c)

SpecTime == InitEnd /\ [][NextTime]_vars

\* ------------------------------------------------- quiz creation
\* POST /quizzes (handler of cmd/lambda/create_quiz, handleCreateQuiz of the
\* local server) on request bodies of up to QuizLimit + 1 questions; the
\* limit of 100 questions is scaled down.
QuizLimit == 2

\* the questions of a request body: no questionId, a time limit of 0 or 2
\* seconds, one or two options, and a correct-option id that is or is not
\* the id of an option
RequestQuestions ==
    {[questionId |-> "", text |-> "t", options |-> opts, correctOptionId |-> cor,
      timeLimitSeconds |-> tl, points |-> 10] :
        opts \in {<< [id |-> "a", text |-> "A"] >>,
                  << [id |-> "a", text |-> "A"], [id |-> "b", text |-> "B"] >>},
        cor \in {"a", "z"},
        tl \in {0, 2}}

RequestBodies ==
    UNION {[1..n -> RequestQuestions] : n \in 0..(QuizLimit + 1)}

\* the loop that gives an id to every question sent without one (the
\* options of the requests above all carry ids)
AssignIDs(questions) ==
    [i \in 1..Len(questions) |->
        IF questions[i].questionId = ""
        THEN [questions[i] EXCEPT !.questionId = "uuid-" \o ToString(i)]
        ELSE questions[i]]

\* the handler's reply, kept in place of the hub's events
HttpReply(status, code, message) ==
    << [type |-> "http", sid |-> "", by |-> "", act |-> "create_quiz",
        payload |-> [status |-> status, code |-> code, message |-> message],
        to |-> {}] >>

\* one request: the three checks, the ids, CreateQuiz (PutItem)
handleCreateQuiz(title, questions) ==
    /\ ~crashed
    /\ "q2" \notin DOMAIN quizzes
    /\ IF title = ""
       THEN /\ sent' = HttpReply(400, "VALIDATION_ERROR", "Title is required")
            /\ UNCHANGED quizzes
       ELSE IF Len(questions) = 0
       THEN /\ sent' = HttpReply(400, "VALIDATION_ERROR", "At least one question is required")
            /\ UNCHANGED quizzes
       ELSE IF Len(questions) > QuizLimit
       THEN /\ sent' = HttpReply(400, "VALIDATION_ERROR", "Maximum 100 questions per quiz")
            /\ UNCHANGED quizzes
       ELSE /\ sent' = HttpReply(201, "", "")
            /\ quizzes' = quizzes @@
                   ("q2" :> [quizId |-> "q2", questions |-> AssignIDs(questions)])
    /\ UNCHANGED << rest, calc, fan, sessions, connections, answers, scores, nicknames,
                    ws, proc, cleanup, puts, issued, crashed >>

NextQuiz ==
    \E title \in {"", "quiz"}, questions \in RequestBodies :
        handleCreateQuiz(title, questions)

SpecQuiz == InitJoin /\ [][NextQuiz]_vars

\* ------------------------------------------------- two sessions
\* Both sessions have been created.  c1 is open on s1 as HOST and c2 on s2
\* as PLAYER; c1 sends start_game, next_question and end_game messages
\* naming either session.
CrossHost == "c1"

InitCross ==
    /\ InitSessions([c \in Conns |->
            IF c = CrossHost THEN [sid |-> "s1", user |-> "user-0001", role |-> "HOST"]
            ELSE IF c = "c2" THEN [sid |-> "s2", user |-> "anon-0001", role |-> "PLAYER"]
            ELSE NoReg], SessionIds)
    /\ rest = RestIdle
    /\ calc = CalcIdle

NextCross ==
    \/ \E sid \in SessionIds : Budget /\ IssueStartGame(CrossHost, sid)
    \/ \E sid \in SessionIds : Budget /\ IssueNextQuestion(CrossHost, sid)
    \/ \E sid \in SessionIds : Budget /\ IssueEndGame(CrossHost, sid)
    \/ HostSteps

SpecCross == InitCross /\ [][NextCross]_vars

\* ------------------------------------------------- teardown
\* The host c1 starts the game of s1 and ends it with end_game; the player
\* c2 submits one answer to the first question and its socket may break.
\* Scheduling of the server: the end_game handler and the teardown
\* goroutine, once they can take a step, eventually take it (the clients
\* are not obliged to send anything).
TeardownSteps ==
    \/ \E c \in Conns : EndVerifyHost(c)
    \/ \E c \in Conns : endGameUpdateSession(c)
    \/ \E c \in Conns : endGameGetTopN(c)
    \/ \E c \in Conns : endGameBroadcastOver(c)
    \/ \E sid \in SessionIds : DeleteSessionScores(sid)
    \/ \E sid \in SessionIds : DeleteSessionNicknames(sid)

NextTeardown ==
    \/ issued[EndHost] = << >> /\ IssueStartGame(EndHost, "s1")
    \/ Len(issued[EndHost]) = 1 /\ IssueEndGame(EndHost, "s1")
    \/ \E opt \in Selections, t \in TimesTaken :
          issued[EndPlayer] = << >> /\ IssueSubmitAnswer(EndPlayer, "q1", opt, t)
    \/ Break(EndPlayer)
    \/ \E c \in Conns : StartGetSession(c)
    \/ \E c \in Conns : StartVerifyHost(c)
    \/ \E c \in Conns : StartUpdateSession(c)
    \/ \E c \in Conns : StartBroadcastStarted(c)
    \/ \E c \in Conns : StartSendQuestion(c)
    \/ \E c \in Conns : SubmitFindConnection(c)
    \/ \E c \in Conns : SubmitGetSession(c)
    \/ \E c \in Conns : SubmitCheckExisting(c)
    \/ \E c \in Conns : SubmitPutAnswer(c)
    \/ \E c \in Conns : SubmitIncrementScore(c)
    \/ \E c \in Conns : SubmitGetRank(c)
    \/ \E c \in Conns : SubmitSendResult(c)
    \/ TeardownSteps

SpecTeardown == InitEnd /\ [][NextTeardown]_vars /\ WF_vars(TeardownSteps)

\* ------------------------------------------------- properties
\* indices of the events of one type broadcast to a session
EventsOf(type, sid) ==
    {i \in DOMAIN sent : sent[i].type = type /\ sent[i].sid = sid}

\* the step appends exactly one event, an error event written to c alone
RejectedTo(c) ==
    /\ Len(sent') = Len(sent) + 1
    /\ SubSeq(sent', 1, Len(sent)) = sent
    /\ sent'[Len(sent')].type = "error"
    /\ sent'[Len(sent')].sid = ""
    /\ sent'[Len(sent')].to \subseteq {c}

\* C1: for every (session, player identity, question) at most one
\* SubmitAnswer call gets as far as storing an Answer, whatever the
\* interleaving: one Answer is written and one increment applied, every
\* other call for the key is rejected as already answered.
C1_AtMostOneAnswerStored == \A k \in AnswerKeys : puts[k] <= 1

\* the connections JoinSession admitted to a session (it broadcast their
\* PlayerJoined) that are registered for it as PLAYER
AdmittedPlayers(sid) ==
    {c \in Conns :
        /\ \E r \in GetConnectionsBySession(sid) : r.cid = c /\ r.role = "PLAYER"
        /\ \E i \in EventsOf("player_joined", sid) : sent[i].by = c}

\* C2: the number of PLAYER connections registered for a session that
\* JoinSession admitted never exceeds the capacity, whatever the
\* interleaving of the JoinSession calls.
C2_CapacityNeverExceeded ==
    \A sid \in SessionIds : Cardinality(AdmittedPlayers(sid)) <= Capacity

\* C3: once a session's stored status is FINISHED, no step changes the
\* status or moves the stored question index away from -1.
C3_FinishedIsTerminal ==
    [][\A sid \in SessionIds :
          sessions[sid].status = "FINISHED" =>
              sessions'[sid].status = "FINISHED" /\ sessions'[sid].idx = -1]_vars

\* C4: of the StartGame calls for a session at most one performs the LOBBY
\* to ACTIVE transition and broadcasts GameStarted.
C4_GameStartedOnce ==
    \A sid \in SessionIds : Cardinality(EventsOf("game_started", sid)) <= 1

\* C5: every step of a StartGame, NextQuestion or EndGame handler whose
\* calling connection had no HOST row in the registry when the action was
\* issued leaves the session records and the teardown tasks unchanged and
\* sends nothing, until the step that ends the handler, which writes one error
\* event to the caller alone; and a host-only handler that is past its role
\* check holds a registry row of the calling connection with role HOST.
C5_NonHostRejected ==
    /\ [][\A c \in Conns :
            (proc[c].act \in HostActs /\ ~proc[c].hostAtIssue /\ proc'[c] # proc[c]) =>
                /\ sessions' = sessions
                /\ cleanup' = cleanup
                /\ IF proc'[c].pc = "idle" THEN RejectedTo(c) ELSE sent' = sent]_vars
    /\ [](\A c \in Conns :
            (proc[c].act \in HostActs /\ proc[c].pc \notin {"idle", "s_get", "s_role", "n_role", "e_role"}) =>
                /\ proc[c].conn.cid = c
                /\ proc[c].conn.role = "HOST"
                /\ proc[c].hostAtIssue)

\* C5 witness: a connection registered as PLAYER asked to end a running game
\* and was told that only the host can.
C5_Witness ==
    /\ sessions["s1"].status = "ACTIVE"
    /\ \E i \in DOMAIN sent :
          /\ sent[i].type = "error"
          /\ sent[i].act = "end_game"
          /\ sent[i].payload.message = "only the host can end the game"

\* C6: every Question event carries exactly the fields index, total, text,
\* options, time limit and points, with the values of the quiz's public
\* part; whichever option the stored quiz marks correct, the event is the same.
C6_QuestionRedacted ==
    \A i \in DOMAIN sent :
        sent[i].type = "question" =>
            LET pl == sent[i].payload
            IN  /\ DOMAIN pl = {"questionIndex", "totalQuestions", "text",
                                "options", "timeLimitMs", "points"}
                /\ pl.questionIndex \in 0..(NumQuestions - 1)
                /\ pl.totalQuestions = NumQuestions
                /\ pl.text = QuizQuestion(pl.questionIndex + 1).text
                /\ pl.options = QuizQuestion(pl.questionIndex + 1).options
                /\ pl.timeLimitMs = QuizQuestion(pl.questionIndex + 1).timeLimitSeconds * 1000
                /\ pl.points = QuizQuestion(pl.questionIndex + 1).points

\* C6 witness: Question events of StartGame and of NextQuestion were
\* delivered, for a quiz whose first question has b as the correct option.
C6_Witness ==
    /\ At(quizzes["q1"].questions, 0).correctOptionId = "b"
    /\ \E i, j \in EventsOf("question", "s1") :
          /\ sent[i].act = "start_game" /\ sent[i].to # {}
          /\ sent[j].act = "next_question" /\ sent[j].to # {}

\* C7: every change of the status or question index of an existing session
\* is LOBBY to ACTIVE with index 0, ACTIVE to ACTIVE with the index
\* incremented, or ACTIVE to FINISHED.
C7_LegalTransitions ==
    [][\A sid \in SessionIds :
          LET a == sessions[sid]
              b == sessions'[sid]
          IN  (a.exists /\ (a.status # b.status \/ a.idx # b.idx)) =>
                \/ a.status = "LOBBY" /\ b.status = "ACTIVE" /\ b.idx = 0
                \/ a.status = "ACTIVE" /\ b.status = "ACTIVE" /\ b.idx = a.idx + 1
                \/ a.status = "ACTIVE" /\ b.status = "FINISHED"]_vars

\* C8: no handler terminates abnormally.
C8_NoPanic == ~crashed

\* C9: a Question event for index i + 1 is handed out only after a
\* QuestionEnded event carrying the correct option of question i was sent
\* to the same session.
C9_EndedBeforeNextQuestion ==
    \A i \in DOMAIN sent :
        (sent[i].type = "question" /\ sent[i].payload.questionIndex > 0) =>
            \E j \in 1..(i - 1) :
                /\ sent[j].type = "question_ended"
                /\ sent[j].sid = sent[i].sid
                /\ sent[j].payload.correctOptionId =
                       At(quizzes["q1"].questions,
                          sent[i].payload.questionIndex - 1).correctOptionId

\* C9 witness: the second connection received the Question event for index 1.
C9_Witness ==
    \E i \in EventsOf("question", "s1") :
        sent[i].payload.questionIndex = 1 /\ "c2" \in sent[i].to

\* number of NextQuestion calls the solo host has issued
SoloNextCalls == Len(issued[SoloHost]) - 1

\* the solo host has sent start_game and all its calls so far have returned
SoloStarted ==
    /\ issued[SoloHost] # << >>
    /\ proc[SoloHost].pc = "idle"
    /\ ~crashed

\* the indices of the Question events sent to s1, in the order sent
OpenedQuestions ==
    LET qs == SelectSeq(sent, LAMBDA e : e.type = "question" /\ e.sid = "s1")
    IN  [i \in DOMAIN qs |-> qs[i].payload.questionIndex]

\* C10: after StartGame, once the host's k-th NextQuestion call has
\* returned (nothing else sent by the host): for k < n the session is ACTIVE
\* with index k, for k = n it is FINISHED with index -1 and GameOver was
\* broadcast; the Question events sent so far are those of the indices
\* 0, 1, ..., min(k, n - 1), once each and in this order.
C10_SoloHostAdvance ==
    SoloStarted =>
        LET k == SoloNextCalls
            n == NumQuestions
            last == IF k < n THEN k ELSE n - 1
        IN  /\ k <= n
            /\ k < n => sessions["s1"].status = "ACTIVE" /\ sessions["s1"].idx = k
            /\ k = n => /\ sessions["s1"].status = "FINISHED"
                        /\ sessions["s1"].idx = -1
                        /\ EventsOf("game_over", "s1") # {}
            /\ k < n => EventsOf("game_over", "s1") = {}
            /\ OpenedQuestions = [i \in 1..(last + 1) |-> i - 1]

\* C11: every GameStarted event broadcast by a StartGame call carries the
\* number of questions of the quiz and, once that call is past its
\* sendQuestion step, is followed by the same call's Question event for
\* index 0 to the same session, whether or not a delivery of GameStarted
\* failed.
C11_StartedThenQuestionZero ==
    \A i \in DOMAIN sent :
        (sent[i].type = "game_started" /\ sent[i].act = "start_game") =>
            /\ sent[i].payload.totalQuestions = NumQuestions
            /\ \/ /\ proc[sent[i].by].act = "start_game"
                  /\ proc[sent[i].by].pc = "s_question"
               \/ \E j \in DOMAIN sent :
                     /\ j > i
                     /\ sent[j].type = "question"
                     /\ sent[j].act = "start_game"
                     /\ sent[j].by = sent[i].by
                     /\ sent[j].sid = sent[i].sid
                     /\ sent[j].payload.questionIndex = 0

\* C12: every AnswerResult event is produced by a SubmitAnswer call, is
\* sent to one connection and not to a session, and reaches no connection
\* other than the one that made the submission.
C12_AnswerResultPrivate ==
    \A i \in DOMAIN sent :
        sent[i].type = "answer_result" =>
            /\ sent[i].act = "submit_answer"
            /\ sent[i].sid = ""
            /\ sent[i].to \subseteq {sent[i].by}

\* C12 witness: the second connection received the result of its own
\* submission while the host's connection was open on the same session.
C12_Witness ==
    /\ ws["c1"].state = "open"
    /\ ws["c1"].sid = ws["c2"].sid
    /\ \E i \in DOMAIN sent :
          /\ sent[i].type = "answer_result"
          /\ sent[i].by = "c2"
          /\ sent[i].to = {"c2"}

\* sum of the points of the Answer rows stored for a player in a session
RECURSIVE SumPoints(_)
SumPoints(rows) ==
    IF rows = {} THEN 0
    ELSE LET r == CHOOSE x \in rows : TRUE
         IN  r.points + SumPoints(rows \ {r})

AcceptedPoints(sid, user) ==
    SumPoints({a \in answers : a.sid = sid /\ a.user = user})

\* every connection of the registry carries an identity of its own
DistinctPlayers ==
    \A r1, r2 \in connections : r1.user = r2.user => r1.cid = r2.cid

\* no handler is running
AllCompleted == \A c \in Conns : proc[c].pc = "idle"

\* C13: when the connections carry different player identities and every
\* SubmitAnswer call has completed, each player's leaderboard score is
\* the sum of the points of that player's own stored answers.
C13_NoLostIncrement ==
    (DistinctPlayers /\ AllCompleted) =>
        \A sid \in SessionIds, user \in Users :
            GetPlayerScore(sid, user) = AcceptedPoints(sid, user)

\* C13 witness: two different players have both answered with points and
\* all calls have completed.
C13_Witness ==
    /\ DistinctPlayers
    /\ AllCompleted
    /\ \E u1, u2 \in Users :
          /\ u1 # u2
          /\ GetPlayerScore("s1", u1) > 0
          /\ GetPlayerScore("s1", u2) > 0

\* the stores a SubmitAnswer call writes
AnswerStores == << answers, scores >>

\* C14: a step of a SubmitAnswer call that ends the call with one of its
\* rejections leaves the Answer store and the leaderboard unchanged, and no
\* step at all replaces or removes an Answer already stored.
C14_RejectedSubmitKeepsStores ==
    [][/\ \A c \in Conns :
            (/\ proc[c].act = "submit_answer"
             /\ proc'[c].pc = "idle"
             /\ proc[c].pc \in {"a_conn", "a_get", "a_chk"}) =>
                AnswerStores' = AnswerStores
       /\ \A a \in answers : a \in answers']_vars

\* the step ends the JoinSession call of c with an error written to c alone
\* and leaves the registry, the leaderboard and the nicknames as they were
JoinRejected(c) ==
    /\ proc'[c].pc = "idle"
    /\ connections' = connections
    /\ scores' = scores
    /\ nicknames' = nicknames
    /\ RejectedTo(c)

\* C15: a JoinSession call that finds a nickname of length outside 1..20,
\* no session, a session that is not in LOBBY or capacity-many PLAYER
\* connections is rejected at that step, and a rejected call has registered
\* no connection, created no leaderboard or nickname entry and broadcast
\* nothing.
C15_RejectedJoinChangesNothing ==
    [][\A c \in Conns :
          (proc[c].act = "join_session" /\ proc'[c] # proc[c]) =>
              /\ (/\ proc[c].pc = "j_get"
                  /\ \/ Len(proc[c].nick) = 0
                     \/ Len(proc[c].nick) > 20
                     \/ ~sessions[proc[c].sid].exists
                     \/ sessions[proc[c].sid].status # "LOBBY") => JoinRejected(c)
              /\ (/\ proc[c].pc = "j_count"
                  /\ GetPlayerCountBySession(proc[c].sid) >= Capacity) => JoinRejected(c)
              /\ (/\ proc[c].pc \in {"j_get", "j_count"}
                  /\ proc'[c].pc = "idle") => JoinRejected(c)]_vars

\* C15 witness: one connection was admitted while the session was in LOBBY,
\* the other was then turned away as the session was full, and holds no
\* PLAYER row.
C15_Witness ==
    /\ sessions["s1"].status = "LOBBY"
    /\ Cardinality(AdmittedPlayers("s1")) = Capacity
    /\ \E i \in DOMAIN sent :
          /\ sent[i].type = "error"
          /\ sent[i].act = "join_session"
          /\ sent[i].payload.message = "session is full (max 2000 players)"
          /\ ~\E r \in connections : r.cid = sent[i].by /\ r.role = "PLAYER"

\* C16: a failed delivery inside BroadcastToSession is not reported to the
\* engine action that called it: no join, start or end action answers its
\* caller with the send error of a broadcast.
C16_BroadcastFailureNotReported ==
    \A i \in DOMAIN sent :
        (sent[i].type = "error" /\ sent[i].act \in {"join_session", "start_game", "end_game"})
            => sent[i].payload.message # "send failed"

\* C17: when a BroadcastToSession call has returned, every connection that
\* was registered for the session when the recipients were enumerated and
\* whose own send succeeded has received the event exactly once, whatever
\* happened to the other recipients' sends.
C17_SucceededSendDelivered ==
    fan.st = "done" =>
        \A c \in fan.enum : c \in fan.ok => fan.got[c] = 1

\* C18: when a BroadcastToSession call has returned, no connection whose
\* send failed during the fan-out is still registered for the session, in
\* the hub or in the connection registry.
C18_FailedSendDeregistered ==
    fan.st = "done" =>
        \A c \in fan.failed :
            /\ c \notin HubMembers(fan.sid)
            /\ ~\E r \in GetConnectionsBySession(fan.sid) : r.cid = c

\* the leaderboard lb lists the user with that cumulative score
Listed(lb, user, score) ==
    \E k \in DOMAIN lb : lb[k].userId = user /\ lb[k].score = score

\* C19: every GameOver event broadcast for a session, through EndGame or
\* through NextQuestion after the last question, lists each player with the
\* cumulative score of that player's accepted answers.
C19_GameOverCarriesScores ==
    [][\A i \in DOMAIN sent' :
          (i \notin DOMAIN sent /\ sent'[i].type = "game_over") =>
              \A user \in Users :
                  AcceptedPoints(sent'[i].sid, user) > 0 =>
                      Listed(sent'[i].payload.finalLeaderboard, user,
                             AcceptedPoints(sent'[i].sid, user))]_vars

\* C20: while a player's leaderboard entry exists, no step of a JoinSession,
\* SubmitAnswer or StartGame call lowers that player's cumulative score.
C20_ScoreNeverDecreases ==
    [][\A sid \in SessionIds, user \in Users :
          (HasScore(sid, user) /\ HasScore(sid, user)') =>
              GetPlayerScore(sid, user)' >= GetPlayerScore(sid, user)]_vars

\* C21: at every moment, no two sessions whose status is LOBBY or ACTIVE hold
\* the same PIN.
C21_PinUniqueAmongOpenSessions ==
    \A s1, s2 \in PinSessionIds :
        (/\ s1 # s2
         /\ rest.tbl[s1].exists /\ rest.tbl[s1].status # "FINISHED"
         /\ rest.tbl[s2].exists /\ rest.tbl[s2].status # "FINISHED")
            => rest.tbl[s1].pin # rest.tbl[s2].pin

\* C22: whatever JoinSession calls a connection has sent, the connection
\* registry holds at most one entry for its connection id.
C22_OneRowPerConnection ==
    \A c \in Conns : Cardinality(GetSessionByConnectionID(c)) <= 1

\* C23: the playerCount of every PlayerJoined event equals the number of
\* PLAYER connections registered in its session when the join broadcasts it.
C23_PlayerCountIsRegistered ==
    [][\A i \in DOMAIN sent', sid \in SessionIds :
          (/\ i \notin DOMAIN sent
           /\ sent'[i].type = "player_joined"
           /\ sent'[i].sid = sid) =>
              sent'[i].payload.playerCount = GetPlayerCountBySession(sid)']_vars

\* the identity handleWebSocket attached to each connection of the lobby
\* scenario when it was opened
LobbyOpenedAs(c) == IF c = LobbyHost THEN "user-0001" ELSE "anon-0001"

\* C24: after JoinSession the registry entry of a connection still carries
\* the identity the connection was opened with, and every leaderboard member
\* and every Answer key is such an identity.
C24_JoinKeepsIdentity ==
    /\ \A c \in Conns : \A r \in GetSessionByConnectionID(c) : r.user = LobbyOpenedAs(c)
    /\ \A r \in scores : \E c \in Conns : r.user = LobbyOpenedAs(c)
    /\ \A a \in answers : \E c \in Conns : a.user = LobbyOpenedAs(c)

\* C25: for a correct answer with time limit L > 0, base points B > 0 and
\* time taken t in 0..L, CalculateScore returns B + floor(B * (L - t) / (2 * L));
\* for L <= 0 it returns B.
C25_ScoreFormula ==
    (calc.st = "returned" /\ calc.isCorrect /\ calc.B > 0) =>
        /\ (calc.L > 0 /\ calc.t \in 0..calc.L) =>
               calc.out = calc.B + ((calc.B * (calc.L - calc.t)) \div (2 * calc.L))
        /\ calc.L <= 0 => calc.out = calc.B

C27_OutOfRangeTimeIsClamped ==
    (calc.st = "returned" /\ calc.L > 0 /\ calc.t \notin 0..calc.L) =>
        calc.out = CalculateScore(calc.isCorrect,
                                  IF calc.t < 0 THEN 0 ELSE calc.L, calc.L, calc.B)

\* C27 witness: a correct answer timed after the limit has returned the base
\* points alone, base points large enough for a bonus at time 0.
C27_Witness ==
    /\ calc.st = "returned"
    /\ calc.isCorrect
    /\ calc.L > 0
    /\ calc.t > calc.L
    /\ calc.B >= 2
    /\ calc.out = calc.B

\* the entries of lb are in non-increasing score order, the i-th has rank i
Ranked(lb) ==
    /\ \A i \in DOMAIN lb : lb[i].rank = i
    /\ \A i, j \in DOMAIN lb : i < j => lb[i].score >= lb[j].score

\* C28: GetTopN(session, n) returns without failing, also for members that
\* have no stored nickname, and its result has min(n, scored players)
\* entries in non-increasing score order, the entry at position i with
\* rank i.
C28_TopNReturnsRanked ==
    /\ ~crashed
    /\ \A k \in DOMAIN sent :
          sent[k].type = "top_n" =>
              /\ Len(sent[k].payload.leaderboard) =
                     (IF sent[k].payload.n < sent[k].payload.scored
                      THEN sent[k].payload.n ELSE sent[k].payload.scored)
              /\ Ranked(sent[k].payload.leaderboard)

\* the errors of the engine that report a state conflict, and those that
\* report a failed dependency
StateConflicts ==
    {"already answered this question", "game already started",
     "session is full (max 2000 players)"}

DependencyFailures ==
    {"send failed", "failed to get quiz", "failed to verify host",
     "failed to find connection"}

\* C29: an error event that reports a state conflict carries a code
\* different from the code of every error event that reports a failed
\* dependency.
C29_ConflictCodeDiffers ==
    \A i, j \in DOMAIN sent :
        (/\ sent[i].type = "error" /\ sent[i].payload.message \in StateConflicts
         /\ sent[j].type = "error" /\ sent[j].payload.message \in DependencyFailures)
            => sent[i].payload.code # sent[j].payload.code

\* the authorization error of each host-only action
AuthorizationError(act) ==
    IF act = "start_game" THEN "only the host can start the game"
    ELSE IF act = "next_question" THEN "only the host can advance questions"
    ELSE "only the host can end the game"

\* C30: the response to a StartGame, NextQuestion or EndGame of a caller
\* without HOST row is the authorization error of that action, whether or
\* not the named session exists and whatever its status is.
C30_NonHostSeesOnlyForbidden ==
    [][\A c \in Conns :
          (/\ proc[c].act \in HostActs
           /\ ~proc[c].hostAtIssue
           /\ proc'[c] # proc[c]
           /\ proc'[c].pc = "idle") =>
              /\ Len(sent') = Len(sent) + 1
              /\ sent'[Len(sent')].type = "error"
              /\ sent'[Len(sent')].payload.message = AuthorizationError(proc[c].act)]_vars

\* C32: every stored Answer has a time taken within [0, timeLimitMs] of its
\* question, whatever timeTakenMs the client submitted.
C32_StoredTimeClamped ==
    \A a \in answers :
        \A q \in DOMAIN quizzes :
            \A i \in 0..(Len(quizzes[q].questions) - 1) :
                At(quizzes[q].questions, i).questionId = a.qid =>
                    a.t \in 0..(At(quizzes[q].questions, i).timeLimitSeconds * 1000)

\* C33: every quiz accepted by quiz creation has between 1 and the maximum
\* number of questions, and each question has a time limit > 0, at least 2
\* options and a correct-option id equal to the id of one of its options.
C33_AcceptedQuizIsValid ==
    \A q \in DOMAIN quizzes :
        /\ Len(quizzes[q].questions) \in 1..QuizLimit
        /\ \A i \in 1..Len(quizzes[q].questions) :
              LET question == quizzes[q].questions[i]
              IN  /\ question.timeLimitSeconds > 0
                  /\ Len(question.options) >= 2
                  /\ \E j \in 1..Len(question.options) :
                        question.options[j].id = question.correctOptionId

\* C34: a host-only action changes the state of, and broadcasts to, only
\* the session in which the calling connection is registered.
C34_HostActsOnOwnSessionOnly ==
    [][/\ \A sid \in SessionIds :
             sessions'[sid] # sessions[sid] =>
                 \E c \in Conns :
                     /\ proc'[c] # proc[c]
                     /\ \E r \in GetSessionByConnectionID(c) : r.sid = sid
       /\ \A i \in (Len(sent) + 1)..Len(sent') :
             (sent'[i].act \in HostActs /\ sent'[i].sid # "") =>
                 \E r \in GetSessionByConnectionID(sent'[i].by) : r.sid = sent'[i].sid]_vars

\* C35: SubmitAnswer stores an Answer only for the question at the
\* session's current question index, and sends no AnswerResult (which
\* carries the correct option) for a question that is not opened yet.
C35_OnlyCurrentQuestionAnswered ==
    [][/\ \A a \in answers' \ answers :
             FindQuestion(quizzes[sessions[a.sid].quizId], a.qid) = sessions[a.sid].idx
       /\ \A i \in (Len(sent) + 1)..Len(sent') :
             sent'[i].type = "answer_result" =>
                 LET p == proc[sent'[i].by]
                 IN  FindQuestion(quizzes[p.quizId], p.qid) <= sessions[p.conn.sid].idx]_vars

\* C36: a connection registered with role HOST keeps role HOST in the
\* registry until it is unregistered: no step changes the role of a
\* registered row.
C36_HostRoleKept ==
    [][\A r \in connections :
           r.role = "HOST" =>
               \A r2 \in connections' :
                   (r2.sid = r.sid /\ r2.cid = r.cid) => r2.role = "HOST"]_vars

\* C37: JoinSession never writes a registration (a registry row with a
\* nickname, a leaderboard entry set to 0, a PlayerJoined broadcast) for a
\* session whose stored status is ACTIVE or FINISHED at that moment.
C37_NoRegistrationAfterStart ==
    [][/\ \A r \in connections' \ connections :
             r.nick # "" => sessions[r.sid].status = "LOBBY"
       /\ \A i \in (Len(sent) + 1)..Len(sent') :
             \A sid \in SessionIds :
                 (sent'[i].type = "player_joined" /\ sent'[i].sid = sid) =>
                     sessions[sid].status = "LOBBY"]_vars

\* C38: the stored question index is consistent with the status: a LOBBY
\* session has index 0, an ACTIVE session an index within the questions of
\* its quiz, and a FINISHED session index -1.
C38_IndexMatchesStatus ==
    \A sid \in SessionIds :
        LET session == sessions[sid]
        IN  session.exists =>
                /\ session.status = "LOBBY" => session.idx = 0
                /\ session.status = "ACTIVE" =>
                       /\ session.quizId \in DOMAIN quizzes
                       /\ InRange(quizzes[session.quizId].questions, session.idx)
                /\ session.status = "FINISHED" => session.idx = 0 - 1

\* a session that next_question has advanced to its second question
C38_Witness ==
    /\ sessions["s1"].status = "ACTIVE"
    /\ sessions["s1"].idx = 1
    /\ \E i \in 1..Len(sent) : sent[i].type = "question" /\ sent[i].payload.questionIndex = 1

\* C39: while a session is LOBBY or ACTIVE its stored question index never
\* decreases, and a step raises it by at most one.
C39_IndexNeverDecreases ==
    [][\A sid \in SessionIds :
           (/\ sessions[sid].exists
            /\ sessions[sid].status \in {"LOBBY", "ACTIVE"}
            /\ sessions'[sid].status \in {"LOBBY", "ACTIVE"}) =>
               /\ sessions'[sid].idx >= sessions[sid].idx
               /\ sessions'[sid].idx <= sessions[sid].idx + 1]_vars

\* C40: once the teardown of a finished session has deleted its
\* leaderboard, no step creates or changes a score or nickname entry of
\* that session.
C40_NoEntryAfterTeardown ==
    [][/\ \A r \in scores' \ scores : ~cleanup[r.sid].done
       /\ \A r \in nicknames' \ nicknames : ~cleanup[r.sid].done]_vars

\* C31: after a session reaches FINISHED, its leaderboard data (score set
\* and nickname map) is eventually removed.
C31_LeaderboardEventuallyRemoved ==
    \A sid \in SessionIds :
        (sessions[sid].exists /\ sessions[sid].status = "FINISHED")
            ~> (/\ \A r \in scores : r.sid # sid
                /\ \A r \in nicknames : r.sid # sid)

====
